---- MODULE Spec2Model ----
(***************************************************************************)
(* State-machine model of bcachefs-tools: the bucket allocator's           *)
(* background workers and alloc-key trigger (alloc_background.c), the      *)
(* device data-drop loops (libbcachefs/migrate.c), the FUSE attribute      *)
(* update (cmd_fusemount.c) and btree node locking                         *)
(* (libbcachefs/btree_iter.c).                                             *)
(***************************************************************************)
EXTENDS Integers, Sequences, FiniteSets, TLC

\* ------------------------------------------------------------------------
\* Bounds of the model
\* ------------------------------------------------------------------------
NBuckets == 2
NFgBuckets == 1
MaxSectors == 1
MaxClock == 2
MaxSeq == 2
GenSpan == 2
NKeys == 1
NNodes == 1
NBtreeIds == 2
MaxReplicas == 2
NTrans == 2
NPaths == 2
NBtrees == 2
MaxPos == 2
MaxSuperblocks == 3

\* option letters on a command line
MaxArgs == 2

\* inodes of the directory tree an option is set in
NInodes == 4

\* bios in flight at a time
NBios == 2
NDevs == 2
NSlots == 2
NIters == 2
MemMax == 4
MaxUpdates == 1
\* c->writes references the workers may hold at a time
MaxWrites == 5
\* directories a rename request chooses from
NRnDirs == 2
\* open buckets, and references on one of them
NObs == 2
MaxPin == 2
NSortedPaths == 3

\* ------------------------------------------------------------------------
\* Program constants
\* ------------------------------------------------------------------------
\* u8 generation numbers wrap at 2^8
GenMod == 256
\* alloc_freespace_genbits(): gc gen >> 4
GenBitsDiv == 16
\* BUCKET_GC_GEN_MAX
BUCKET_GC_GEN_MAX == 96

Buckets == 1..NBuckets
\* the buckets the foreground operations of AllocSpec act on
FgBuckets == {b \in Buckets : b <= NFgBuckets}

\* generations start just below a genbits boundary and may advance GenSpan
GenBase == GenBitsDiv - 1
MaxGen == GenBase + GenSpan

Max(x, y) == IF x >= y THEN x ELSE y

VARIABLES
    \* ---- allocator (one member device) ----
    alloc,              \* BTREE_ID_alloc: bucket -> bch_alloc_v4
    freespace,          \* BTREE_ID_freespace: set of <<bucket, genbits>>
    need_discard,       \* BTREE_ID_need_discard: set of buckets
    lru,                \* BTREE_ID_lru: set of [time, idx]
    open,               \* open_buckets: buckets open for allocation
    waiting,            \* buckets_waiting_for_journal: bucket -> journal seq
    io_clock,           \* c->io_clock[READ].now
    journal,            \* [seq: open entry, flushed: flushed_seq_ondisk]
    dev,                \* ca->mi: [discard, freespace_initialized]
    dw,                 \* bch2_do_discards_work: [pc, pos, bucket, discard_done,
                        \*   locked, relock, staged]
    iw,                 \* bch2_do_invalidates_work: [pc]
    \* ---- device data drop and FUSE setattr ----
    opts,               \* [flags: force flags, replicas: c->opts.*_replicas]
    bkeys,              \* user-data btree -> sequence of extent keys
    bnodes,             \* btree id -> sequence of btree node keys
    dd,                 \* bch2_dev_data_drop: [phase, id, pos, ret]
    sa,                 \* bcachefs_fuse_setattr: [pc, ret]
    \* ---- btree node locking ----
    paths,              \* transaction -> path index -> btree_path
    trans,              \* transaction -> [restarted, reason, wait]
    wlocked,            \* nodes whose six lock is held for write
    \* ---- mount ----
    fi,                 \* bch2_fs_freespace_init: [pc, pos, ret, doing_init,
                        \*   sb_flag, visits]
    \* ---- format and superblock write (libbcachefs.c) ----
    sb,                 \* struct bch_sb: [offset, csum, dev_idx, seq, layout]
    disk,               \* [written: superblock copies on the device by sector,
                        \*  layout_written, zeroed, synced, log: calls made]
    fmt,                \* bch2_format / bch2_super_write: [pc, i, dev]
    \* ---- command line tools ----
    fsck,               \* cmd_fsck: arguments, position, exit status
    dj,                 \* cmd_data_job: arguments, the op, what was submitted
    pr,                 \* cmd_setattr: the inodes and the propagation stack
    \* ---- block layer shim (linux/blkdev.c) ----
    bios,               \* struct bio by number: [op, preflush, fua, wait, st, endio, status, done, waiter]
    aio,                \* [fops, events: completions not yet reaped, running_requests, dead]
    \* ---- iterators (btree_iter.c peek functions) ----
    bt,                 \* one btree: [split, disk: position -> keys in the leaves, journal, updates, replay_done]
    it,                 \* struct btree_iter: [pc, flags, start, pos, search_key, k: the key returned]
    \* ---- btree paths of one transaction ----
    tp,                 \* trans->paths: slot -> struct btree_path
    tx,                 \* struct btree_trans: [allocated, sorted, updates, iters, restarted, ...]
    km,                 \* trans->mem: [mem, mem_bytes, mem_top, ret, p, size, ...]
    \* ---- the writes reference of the background workers ----
    wq,                 \* [writes: c->writes references held for the workers,
                        \*  dying, pending, running: per work item]
    \* ---- removing a device from the allocator ----
    ar,                 \* bch2_dev_allocator_remove: groups, open buckets, position
    \* ---- FUSE rename ----
    rn,                 \* bcachefs_fuse_rename: the request and what the transaction got
    \* ---- lock order in bch2_btree_path_traverse_all ----
    ord                 \* [pc, paths, sorted, traverse_all_idx, in_traverse_all,
                        \*  fill: the path of a key cache fill, reason]

allocVars == <<alloc, freespace, need_discard, lru, open, waiting, io_clock,
               journal, dev, dw, iw>>

restartVars == <<opts, bkeys, bnodes, dd, sa>>

lockVars == <<paths, trans, wlocked>>

mountVars == <<fi>>

formatVars == <<sb, disk, fmt>>

cliVars == <<fsck, dj, pr>>

ioVars == <<bios, aio>>

iterVars == <<bt, it>>

pathVars == <<tp, tx, km>>

workVars == <<wq>>

removeVars == <<ar>>

renameVars == <<rn>>

orderVars == <<ord>>

vars == <<allocVars, restartVars, lockVars, mountVars, formatVars, cliVars, ioVars, iterVars,
          pathVars, workVars, removeVars, renameVars, orderVars>>

\* what the operations of one part of the program leave alone
notAllocVars == <<restartVars, lockVars, mountVars, formatVars, cliVars,
    ioVars,
    iterVars,
    pathVars,
    workVars, removeVars, renameVars, orderVars>>

notRestartVars == <<allocVars, lockVars, mountVars, formatVars, cliVars,
    ioVars,
    iterVars,
    pathVars,
    workVars, removeVars, renameVars, orderVars>>

notLockVars == <<allocVars, restartVars, mountVars, formatVars, cliVars,
    ioVars,
    iterVars,
    pathVars,
    workVars, removeVars, renameVars, orderVars>>

notMountVars == <<restartVars, lockVars, formatVars, cliVars,
    ioVars,
    iterVars,
    pathVars,
    workVars, removeVars, renameVars, orderVars>>

notCliVars == <<allocVars, restartVars, lockVars, mountVars, formatVars,
    ioVars,
    iterVars,
    pathVars,
    workVars, removeVars, renameVars, orderVars>>

notFormatVars == <<allocVars, restartVars, lockVars, mountVars, cliVars,
    ioVars,
    iterVars,
    pathVars,
    workVars, removeVars, renameVars, orderVars>>

notIoVars == <<allocVars, restartVars, lockVars, mountVars, formatVars, cliVars,
    iterVars,
    pathVars,
    workVars, removeVars, renameVars, orderVars>>

notIterVars == <<allocVars, restartVars, lockVars, mountVars, formatVars, cliVars, ioVars,
    pathVars,
    workVars, removeVars, renameVars, orderVars>>

notPathVars == <<allocVars, restartVars, lockVars, mountVars, formatVars, cliVars, ioVars, iterVars,
    workVars, removeVars, renameVars, orderVars>>

notWorkVars == <<allocVars, restartVars, lockVars, mountVars, formatVars, cliVars, ioVars, iterVars,
    pathVars, removeVars, renameVars, orderVars>>

notRemoveVars == <<allocVars, restartVars, lockVars, mountVars, formatVars, cliVars, ioVars, iterVars,
    pathVars, workVars, renameVars, orderVars>>

notRenameVars == <<allocVars, restartVars, lockVars, mountVars, formatVars, cliVars, ioVars, iterVars,
    pathVars, workVars, removeVars, orderVars>>

notOrderVars == <<allocVars, restartVars, lockVars, mountVars, formatVars, cliVars, ioVars, iterVars,
    pathVars, workVars, removeVars, renameVars>>

\* ------------------------------------------------------------------------
\* alloc_background.h helpers
\* ------------------------------------------------------------------------
alloc_gc_gen(a) == (a.gen - a.oldest_gen + GenMod) % GenMod

bucket_state(a) ==
    IF a.dirty_sectors # 0 THEN "dirty"
    ELSE IF a.cached_sectors # 0 THEN "cached"
    ELSE IF a.need_discard THEN "need_discard"
    ELSE IF alloc_gc_gen(a) >= BUCKET_GC_GEN_MAX THEN "need_gc_gens"
    ELSE "free"

alloc_lru_idx(a) == IF bucket_state(a) = "cached" THEN a.io_read ELSE 0

alloc_freespace_genbits(a) == alloc_gc_gen(a) \div GenBitsDiv

alloc_freespace_pos(b, a) == <<b, alloc_freespace_genbits(a)>>

bch2_bucket_is_open_safe(b) == b \in open

bch2_bucket_needs_journal_commit(b) == waiting[b] > journal.flushed


\* ------------------------------------------------------------------------
\* lru.c: bch2_lru_change()
\* ------------------------------------------------------------------------
lru_slot_free(l, t) == \A e \in l : e.time # t

lru_delete(st, b, time) ==
    IF time = 0 THEN st
    ELSE IF [time |-> time, idx |-> b] \notin st.lru
         THEN [st EXCEPT !.ret = "-EIO"]
         ELSE [st EXCEPT !.lru = @ \ {[time |-> time, idx |-> b]}]

lru_set(st, b, time) ==
    IF time = 0 \/ st.ret # "0" THEN st
    ELSE LET slot == CHOOSE u \in time..(time + Cardinality(st.lru)) :
                        /\ lru_slot_free(st.lru, u)
                        /\ \A v \in time..(u - 1) : ~lru_slot_free(st.lru, v)
         IN  [st EXCEPT !.lru = @ \cup {[time |-> slot, idx |-> b]},
                        !.time = slot]

bch2_lru_change(l, b, old_time, new_time) ==
    LET st == [ret |-> "0", lru |-> l, time |-> new_time]
    IN  IF old_time = new_time THEN st
        ELSE lru_set(lru_delete(st, b, old_time), b, new_time)

\* ------------------------------------------------------------------------
\* alloc_background.c: freespace / need_discard index
\* ------------------------------------------------------------------------
\* variant: a delete leaves the freespace key in place
bch2_bucket_do_index_keep_free(ix, b, a, set) ==
    LET state == bucket_state(a)
        pos   == alloc_freespace_pos(b, a)
    IN  IF state = "free" /\ set
        THEN [ix EXCEPT !.freespace = @ \cup {pos}]
        ELSE IF state = "need_discard"
        THEN [ix EXCEPT !.need_discard =
                    IF set THEN @ \cup {b} ELSE @ \ {b}]
        ELSE ix

\* variant: a delete leaves the need_discard key in place
bch2_bucket_do_index_keep_key(ix, b, a, set) ==
    LET state == bucket_state(a)
        pos   == alloc_freespace_pos(b, a)
    IN  IF state = "free"
        THEN [ix EXCEPT !.freespace =
                    IF set THEN @ \cup {pos} ELSE @ \ {pos}]
        ELSE IF state = "need_discard" /\ set
        THEN [ix EXCEPT !.need_discard = @ \cup {b}]
        ELSE ix

bch2_bucket_do_index(ix, b, a, set) ==
    LET state   == bucket_state(a)
        pos     == alloc_freespace_pos(b, a)
        present == IF state = "free" THEN pos \in freespace
                                     ELSE b \in need_discard
    IN  IF state \notin {"free", "need_discard"} THEN ix
        ELSE IF dev.freespace_initialized /\ present = set
             THEN [ix EXCEPT !.ret = "-EIO"]
        ELSE IF state = "free"
             THEN [ix EXCEPT !.freespace =
                        IF set THEN @ \cup {pos} ELSE @ \ {pos}]
             ELSE [ix EXCEPT !.need_discard =
                        IF set THEN @ \cup {b} ELSE @ \ {b}]

\* ------------------------------------------------------------------------
\* alloc_background.c: bch2_trans_mark_alloc(), the transactional trigger
\* ------------------------------------------------------------------------
\* variant: a write does not flag the bucket as needing a discard
mark_alloc_data_written_no_discard(old, new) ==
    IF \/ new.dirty_sectors > old.dirty_sectors
       \/ new.cached_sectors > old.cached_sectors
    THEN [new EXCEPT !.io_read      = Max(1, io_clock),
                     !.need_inc_gen = TRUE]
    ELSE new

mark_alloc_data_written(old, new) ==
    IF \/ new.dirty_sectors > old.dirty_sectors
       \/ new.cached_sectors > old.cached_sectors
    THEN [new EXCEPT !.io_read      = Max(1, io_clock),
                     !.need_inc_gen = TRUE,
                     !.need_discard = TRUE]
    ELSE new

mark_alloc_inc_gen(b, old, new) ==
    IF /\ old.data_type # "none"
       /\ new.data_type = "none"
       /\ old.gen = new.gen
       /\ ~bch2_bucket_is_open_safe(b)
    THEN [new EXCEPT !.gen = (@ + 1) % GenMod, !.need_inc_gen = FALSE]
    ELSE new

mark_alloc_index(b, old, new) ==
    LET ix0 == [ret |-> "0", freespace |-> freespace,
                need_discard |-> need_discard]
    IN  IF \/ bucket_state(old) # bucket_state(new)
           \/ /\ bucket_state(new) = "free"
              /\ alloc_freespace_genbits(old) # alloc_freespace_genbits(new)
        THEN LET ix1 == bch2_bucket_do_index(ix0, b, old, FALSE)
             IN  IF ix1.ret # "0" THEN ix1
                 ELSE bch2_bucket_do_index(ix1, b, new, TRUE)
        ELSE ix0

mark_alloc_lru(b, old, new) ==
    LET old_lru == alloc_lru_idx(old)
        new_lru == alloc_lru_idx(new)
        ch      == bch2_lru_change(lru, b, old_lru, new_lru)
    IN  IF old_lru = new_lru THEN [ret |-> "0", lru |-> lru, a |-> new]
        ELSE IF ch.ret # "0" THEN [ret |-> ch.ret, lru |-> lru, a |-> new]
        ELSE [ret |-> "0", lru |-> ch.lru,
              a |-> IF ch.time # 0 /\ new.io_read # ch.time
                    THEN [new EXCEPT !.io_read = ch.time] ELSE new]

bch2_trans_mark_alloc(b, old, new) ==
    LET n1 == mark_alloc_data_written(old, new)
        n2 == mark_alloc_inc_gen(b, old, n1)
        ix == mark_alloc_index(b, old, n2)
        lr == mark_alloc_lru(b, old, n2)
    IN  IF ix.ret # "0"
        THEN [ret |-> ix.ret, a |-> n2, freespace |-> freespace,
              need_discard |-> need_discard, lru |-> lru]
        ELSE IF lr.ret # "0"
        THEN [ret |-> lr.ret, a |-> n2, freespace |-> freespace,
              need_discard |-> need_discard, lru |-> lru]
        ELSE [ret |-> "0", a |-> lr.a, freespace |-> ix.freespace,
              need_discard |-> ix.need_discard, lru |-> lr.lru]

\* buckets.c: bch2_mark_alloc(), run at commit with the commit's journal seq;
\* noflush is the answer of bch2_journal_noflush_seq() for that seq
bch2_mark_alloc(old, new, noflush) ==
    IF (old.data_type = "none") # (new.data_type = "none")
    THEN [new EXCEPT !.journal_seq =
              IF new.data_type = "none" /\ noflush THEN 0 ELSE journal.seq]
    ELSE new

\* bch2_trans_update() of an alloc key followed by bch2_trans_commit():
\* the result, and the btrees it leaves behind
trans_commit_ret(b, new) == bch2_trans_mark_alloc(b, alloc[b], new).ret

bch2_trans_commit(b, new) ==
    LET t == bch2_trans_mark_alloc(b, alloc[b], new)
    IN  IF t.ret # "0"
        THEN UNCHANGED <<alloc, freespace, need_discard, lru, waiting>>
        ELSE \E noflush \in BOOLEAN :
             LET a == bch2_mark_alloc(alloc[b], t.a, noflush)
             IN  /\ alloc' = [alloc EXCEPT ![b] = a]
                 /\ freespace' = t.freespace
                 /\ need_discard' = t.need_discard
                 /\ lru' = t.lru
                 /\ waiting' = IF /\ alloc[b].data_type # "none"
                                  /\ a.data_type = "none"
                                  /\ a.journal_seq # 0
                               THEN [waiting EXCEPT ![b] = a.journal_seq]
                               ELSE waiting

\* the update may not take the generation past the model's bound
gen_in_bound(b, new) == bch2_trans_mark_alloc(b, alloc[b], new).a.gen <= MaxGen

\* ------------------------------------------------------------------------
\* Foreground allocation and extent accounting (alloc_foreground.c, buckets.c)
\* ------------------------------------------------------------------------
bch2_bucket_alloc(b) ==
    /\ alloc_freespace_pos(b, alloc[b]) \in freespace
    /\ bucket_state(alloc[b]) = "free"
    /\ ~bch2_bucket_is_open_safe(b)
    /\ ~bch2_bucket_needs_journal_commit(b)
    /\ open' = open \cup {b}
    /\ UNCHANGED <<alloc, freespace, need_discard, lru, waiting, io_clock,
                   journal, dev, dw, iw>>
    /\ UNCHANGED notAllocVars

bch2_open_bucket_put(b) ==
    /\ b \in open
    /\ open' = open \ {b}
    /\ UNCHANGED <<alloc, freespace, need_discard, lru, waiting, io_clock,
                   journal, dev, dw, iw>>
    /\ UNCHANGED notAllocVars

same_data_class(t1, t2) == (t1 = "btree") = (t2 = "btree")

mark_pointer(a, type, sectors) ==
    LET n == IF type = "cached"
             THEN [a EXCEPT !.cached_sectors = @ + sectors]
             ELSE [a EXCEPT !.dirty_sectors = @ + sectors]
    IN  [n EXCEPT !.data_type =
            IF n.dirty_sectors # 0 \/ n.cached_sectors # 0
            THEN type ELSE "none"]

\* a write into an open bucket adds a pointer to it
bch2_trans_mark_pointer_add(b, type) ==
    LET new == mark_pointer(alloc[b], type, 1)
    IN  /\ b \in open
        /\ alloc[b].data_type = "none" \/ same_data_class(alloc[b].data_type, type)
        /\ new.dirty_sectors <= MaxSectors
        /\ new.cached_sectors <= MaxSectors
        /\ bch2_trans_commit(b, new)
        /\ UNCHANGED <<open, io_clock, journal, dev, dw, iw>>
        /\ UNCHANGED notAllocVars

\* an overwrite or a deletion drops a pointer from a bucket
bch2_trans_mark_pointer_drop(b, kind) ==
    LET type == IF kind = "cached" THEN "cached"
                ELSE IF alloc[b].data_type = "btree" THEN "btree" ELSE "user"
        new  == mark_pointer(alloc[b], type, -1)
    IN  /\ IF kind = "cached" THEN alloc[b].cached_sectors > 0
                              ELSE alloc[b].dirty_sectors > 0
        /\ gen_in_bound(b, new)
        /\ bch2_trans_commit(b, new)
        /\ UNCHANGED <<open, io_clock, journal, dev, dw, iw>>
        /\ UNCHANGED notAllocVars

bch2_bucket_io_time_reset(b) ==
    /\ alloc[b].data_type # "none"
    /\ alloc[b].io_read # io_clock
    /\ bch2_trans_commit(b, [alloc[b] EXCEPT !.io_read = io_clock])
    /\ UNCHANGED <<open, io_clock, journal, dev, dw, iw>>
    /\ UNCHANGED notAllocVars

bch2_increment_clock ==
    /\ io_clock < MaxClock
    /\ io_clock' = io_clock + 1
    /\ UNCHANGED <<alloc, freespace, need_discard, lru, open, waiting,
                   journal, dev, dw, iw>>
    /\ UNCHANGED notAllocVars

bch2_journal_write ==
    /\ journal.seq < MaxSeq
    /\ journal' = [seq |-> journal.seq + 1, flushed |-> journal.seq]
    /\ UNCHANGED <<alloc, freespace, need_discard, lru, open, waiting,
                   io_clock, dev, dw, iw>>
    /\ UNCHANGED notAllocVars

\* ------------------------------------------------------------------------
\* Discard worker
\* ------------------------------------------------------------------------
\* locked: the transaction holds btree node locks; relock: what the
\* bch2_trans_relock() after the device discard came to ("none" before it);
\* staged: bch2_trans_update() was called after that relock
dw_idle == [pc |-> "idle", pos |-> 1, bucket |-> 0, discard_done |-> FALSE,
            locked |-> FALSE, relock |-> "none", staged |-> FALSE]

dw_next(k) == [dw_idle EXCEPT !.pc = "iter", !.pos = k + 1, !.locked = TRUE]

bch2_do_discards ==
    /\ dw.pc = "idle"
    /\ dw' = [dw_idle EXCEPT !.pc = "iter"]
    /\ UNCHANGED <<alloc, freespace, need_discard, lru, open, waiting,
                   io_clock, journal, dev, iw>>
    /\ UNCHANGED notAllocVars

\* variant: the worker skips open buckets only
discards_skip_open_only(k) == bch2_bucket_is_open_safe(k)

discards_skip(k) ==
    \/ bch2_bucket_needs_journal_commit(k)
    \/ bch2_bucket_is_open_safe(k)

bch2_do_discards_work ==
    /\ dw.pc = "iter"
    /\ LET cand == {b \in need_discard : b >= dw.pos}
           k    == CHOOSE b \in cand : \A c \in cand : b <= c
       IN  dw' = IF cand = {} THEN dw_idle
                 ELSE IF discards_skip(k) THEN dw_next(k)
                 ELSE [dw_idle EXCEPT !.pc = "trans", !.pos = k,
                                      !.bucket = k, !.locked = TRUE]
    /\ UNCHANGED <<alloc, freespace, need_discard, lru, open, waiting,
                   io_clock, journal, dev, iw>>
    /\ UNCHANGED notAllocVars

\* variant: need_inc_gen is not looked at
clear_need_discard_step_no_inc_gen(a, discard_done) ==
    IF a.journal_seq > journal.flushed THEN "BUG"
    ELSE IF ~a.need_discard THEN "-EIO"
    ELSE IF ~discard_done /\ dev.discard THEN "discard"
    ELSE "clear"

\* what bch2_clear_need_discard() does with the alloc key it read:
\* "inc_gen", "BUG", "-EIO", "discard" (unlock and issue it) or "clear"
clear_need_discard_step(a, discard_done) ==
    IF a.need_inc_gen THEN "inc_gen"
    ELSE IF a.journal_seq > journal.flushed THEN "BUG"
    ELSE IF ~a.need_discard THEN "-EIO"
    ELSE IF ~discard_done /\ dev.discard THEN "discard"
    ELSE "clear"

clear_need_discard_key(a, step) ==
    IF step = "inc_gen"
    THEN [a EXCEPT !.gen = (@ + 1) % GenMod, !.need_inc_gen = FALSE]
    ELSE [a EXCEPT !.need_discard = FALSE]

bch2_clear_need_discard ==
    /\ dw.pc = "trans"
    /\ LET b    == dw.bucket
           step == clear_need_discard_step(alloc[b], dw.discard_done)
           new  == clear_need_discard_key(alloc[b], step)
       IN  IF step \in {"inc_gen", "clear"}
           THEN /\ gen_in_bound(b, new)
                /\ bch2_trans_commit(b, new)
                /\ dw' = IF trans_commit_ret(b, new) = "0"
                         THEN dw_next(b) ELSE dw_idle
           ELSE /\ dw' = IF step = "BUG" THEN [dw EXCEPT !.pc = "BUG"]
                         ELSE IF step = "-EIO" THEN dw_idle
                         ELSE [dw EXCEPT !.pc = "unlocked",
                                         !.discard_done = TRUE,
                                         !.locked = FALSE,
                                         !.relock = "none",
                                         !.staged = FALSE]
                /\ UNCHANGED <<alloc, freespace, need_discard, lru, waiting>>
    /\ UNCHANGED <<open, io_clock, journal, dev, iw>>
    /\ UNCHANGED notAllocVars

\* ret = bch2_trans_relock(trans); if (ret) goto out; with ret true the
\* function returns 1 and the worker leaves its loop, with ret false
\* NEED_DISCARD is cleared and bch2_trans_update() called on the transaction
\* that the failed relock restarted, which then runs the function again
clear_need_discard_relock(relocked) ==
    /\ dw.pc = "unlocked"
    /\ dw' = IF relocked THEN [dw_idle EXCEPT !.relock = "ok"]
             ELSE [dw EXCEPT !.pc = "trans", !.relock = "failed",
                             !.staged = TRUE]
    /\ UNCHANGED <<alloc, freespace, need_discard, lru, open, waiting,
                   io_clock, journal, dev, iw>>
    /\ UNCHANGED notAllocVars

\* ------------------------------------------------------------------------
\* Invalidate worker
\* ------------------------------------------------------------------------
should_invalidate_buckets ==
    \E b \in Buckets : bucket_state(alloc[b]) = "cached"

bch2_do_invalidates ==
    /\ iw.pc = "idle"
    /\ iw' = [pc |-> "run"]
    /\ UNCHANGED <<alloc, freespace, need_discard, lru, open, waiting,
                   io_clock, journal, dev, dw>>
    /\ UNCHANGED notAllocVars

invalidate_key(a) ==
    [a EXCEPT !.need_inc_gen   = FALSE,
              !.gen            = (@ + 1) % GenMod,
              !.data_type      = "none",
              !.dirty_sectors  = 0,
              !.cached_sectors = 0,
              !.io_read        = io_clock]

\* variant: the newest lru entry is taken
invalidate_target_newest ==
    IF lru = {} THEN 0
    ELSE LET k == CHOOSE e \in lru : \A f \in lru : e.time >= f.time
         IN  IF k.time # alloc_lru_idx(alloc[k.idx]) THEN 0 ELSE k.idx

\* the bucket invalidate_one_bucket() updates: the head of the lru, or 0
invalidate_target ==
    IF lru = {} THEN 0
    ELSE LET k == CHOOSE e \in lru : \A f \in lru : e.time <= f.time
         IN  IF k.time # alloc_lru_idx(alloc[k.idx]) THEN 0 ELSE k.idx

invalidate_one_bucket ==
    /\ iw.pc = "run"
    /\ should_invalidate_buckets
    /\ invalidate_target # 0
    /\ LET b   == invalidate_target
           new == invalidate_key(alloc[b])
       IN  /\ gen_in_bound(b, new)
           /\ bch2_trans_commit(b, new)
           /\ iw' = IF trans_commit_ret(b, new) = "0" THEN iw
                    ELSE [pc |-> "idle"]
    /\ UNCHANGED <<open, io_clock, journal, dev, dw>>
    /\ UNCHANGED notAllocVars

bch2_do_invalidates_work ==
    /\ iw.pc = "run"
    /\ ~should_invalidate_buckets
    /\ iw' = [pc |-> "idle"]
    /\ UNCHANGED <<alloc, freespace, need_discard, lru, open, waiting,
                   io_clock, journal, dev, dw>>
    /\ UNCHANGED notAllocVars



\* ------------------------------------------------------------------------
\* Properties of the allocator
\* ------------------------------------------------------------------------
St(b) == bucket_state(alloc[b])

DataStates == {"dirty", "cached"}

freespace_keys(b) == {k \in freespace : k[1] = b}

lru_entries(b) == {e \in lru : e.idx = b}

\* C4: after any commit, a bucket in state free has exactly one freespace
\* key, the one carrying its generation bits, and a bucket in any other
\* state has no freespace key at all.
C4_FreespaceConsistent ==
    \A b \in Buckets :
        freespace_keys(b) = IF St(b) = "free"
                            THEN {alloc_freespace_pos(b, alloc[b])}
                            ELSE {}

\* a bucket went through a reuse cycle that moved its freespace key to new
\* generation bits
C4_Witness ==
    \E b \in Buckets :
        /\ St(b) = "free"
        /\ alloc_freespace_genbits(alloc[b]) > 0
        /\ alloc_freespace_pos(b, alloc[b]) \in freespace

\* C5: after any committed alloc update, every key of the need_discard btree
\* refers to a bucket whose alloc record is in state need_discard.
C5_NeedDiscardConsistent ==
    \A b \in need_discard : St(b) = "need_discard"

C5_Witness ==
    \E b \in need_discard : alloc[b].need_discard /\ alloc[b].journal_seq = 0

\* C6: every bucket in the cached state has exactly one LRU entry, and the
\* io_time[READ] of its alloc record is the index of that entry.
C6_CachedHasLru ==
    \A b \in Buckets :
        St(b) = "cached" =>
            lru_entries(b) = {[time |-> alloc[b].io_read, idx |-> b]}

\* C7: a bucket leaves state free only for a data state, leaves a data state
\* only for another data state or need_discard, and enters state free only
\* from need_discard.
C7_Lifecycle ==
    [][\A b \in Buckets :
         /\ (St(b) = "free" /\ St(b)' # "free") => St(b)' \in DataStates
         /\ St(b) \in DataStates => St(b)' \in DataStates \cup {"need_discard"}
         /\ (St(b)' = "free" /\ St(b) # "free") => St(b) = "need_discard"
      ]_vars

\* the discard worker has just returned a used bucket to state free
C7_Witness ==
    \E b \in Buckets :
        /\ St(b) = "free"
        /\ alloc[b].gen > GenBase
        /\ dw.pc = "iter"
        /\ dw.pos > b

\* C8: a bucket in state free never has need_inc_gen set, and need_inc_gen
\* is only ever cleared together with an increment of the generation.
C8_IncGenBeforeFree ==
    /\ [](\A b \in Buckets : St(b) = "free" => ~alloc[b].need_inc_gen)
    /\ [][\A b \in Buckets :
            (alloc[b].need_inc_gen /\ ~alloc[b].need_inc_gen')
                => alloc[b].gen' = (alloc[b].gen + 1) % GenMod
         ]_vars

\* a written bucket is empty again, its generation incremented, and waits
\* for its discard
C8_Witness ==
    \E b \in Buckets :
        /\ St(b) = "need_discard"
        /\ ~alloc[b].need_inc_gen
        /\ alloc[b].gen > GenBase

\* C9: the invalidate worker never applies an invalidation to a bucket that
\* is open for allocation.
C9_OpenNeverInvalidated ==
    [][(invalidate_one_bucket /\ alloc' # alloc)
            => ~bch2_bucket_is_open_safe(invalidate_target)]_vars

\* C10: the discard worker never trips its journal assertion, and it issues
\* a discard for, or clears need_discard on, a bucket only when the journal
\* seq of the bucket is flushed and the bucket is not waiting for a journal
\* commit.
journal_seq_durable(b) ==
    /\ alloc[b].journal_seq <= journal.flushed
    /\ ~bch2_bucket_needs_journal_commit(b)

C10_DiscardOnlyDurable ==
    /\ [](dw.pc # "BUG")
    /\ [][/\ (dw.pc = "trans" /\ dw.pc' = "unlocked")
                => journal_seq_durable(dw.bucket)
          /\ \A b \in Buckets :
                (alloc[b].need_discard /\ ~alloc[b].need_discard')
                    => journal_seq_durable(b)
         ]_vars

\* a discard was issued for a bucket whose emptying had to be flushed first
C10_Witness ==
    /\ dw.pc = "unlocked"
    /\ alloc[dw.bucket].journal_seq # 0
    /\ journal_seq_durable(dw.bucket)

\* the device discard of bucket b has been issued by the worker
discard_issued(b) ==
    /\ dw.pc = "unlocked"
    /\ dw.bucket = b
    /\ ~bch2_bucket_is_open_safe(b)
    /\ journal_seq_durable(b)

\* C11: the discard worker drains the need_discard btree: a bucket in it that
\* is durable and not open is, once its device discard has been issued,
\* eventually in state free with its need_discard key removed.
C11_DiscardDrains ==
    \A b \in Buckets :
        discard_issued(b) ~> (St(b) = "free" /\ b \notin need_discard)

\* C12: an invalidation updates the bucket of the head (oldest) lru entry of
\* the device and no other bucket, takes its generation up by exactly one
\* and leaves it with no dirty and no cached sectors.
C12_InvalidateHead ==
    [][(invalidate_one_bucket /\ alloc' # alloc) =>
        \E b \in Buckets :
            /\ \A c \in Buckets \ {b} : alloc'[c] = alloc[c]
            /\ \E e \in lru : e.idx = b /\ \A f \in lru : e.time <= f.time
            /\ alloc'[b].gen = (alloc[b].gen + 1) % GenMod
            /\ alloc'[b].dirty_sectors = 0
            /\ alloc'[b].cached_sectors = 0]_vars

\* a bucket has been invalidated while a newer cached bucket stays in the lru
C12_Witness ==
    \E b \in Buckets, e \in lru :
        /\ b \in open
        /\ alloc[b].gen = GenBase + 1
        /\ alloc[b].dirty_sectors = 0 /\ alloc[b].cached_sectors = 0
        /\ e.idx # b
        /\ e.time > 1
        /\ St(e.idx) = "cached"


\* ------------------------------------------------------------------------
\* alloc_background.c: bch2_fs_freespace_init()
\* ------------------------------------------------------------------------
fi_idle == [pc |-> "idle", pos |-> 1, ret |-> "0", doing_init |-> FALSE,
            sb_flag |-> FALSE, was_init |-> FALSE,
            visits |-> [b \in Buckets |-> 0]]

\* what a transaction of the scan may fail with
ScanRets == {"0", "-ENOMEM"}

\* bch2_fs_freespace_init(), up to the scan of the device: a device whose
\* member info says freespace_initialized is skipped
bch2_fs_freespace_init ==
    /\ fi.pc \in {"idle", "done"}
    /\ fi' = IF dev.freespace_initialized
             THEN [fi_idle EXCEPT !.pc = "done", !.was_init = TRUE,
                                  !.sb_flag = TRUE]
             ELSE [fi_idle EXCEPT !.pc = "scan", !.doing_init = TRUE]
    /\ UNCHANGED allocVars
    /\ UNCHANGED notMountVars

\* variant: only free buckets are entered in an index
dev_freespace_init_index_free_only(b) ==
    LET ix0 == [ret |-> "0", freespace |-> freespace,
                need_discard |-> need_discard]
    IN  IF bucket_state(alloc[b]) = "free"
        THEN bch2_bucket_do_index(ix0, b, alloc[b], TRUE) ELSE ix0

\* the transaction of one bucket of the scan
dev_freespace_init_index(b) ==
    LET ix0 == [ret |-> "0", freespace |-> freespace,
                need_discard |-> need_discard]
    IN  bch2_bucket_do_index(ix0, b, alloc[b], TRUE)

\* bch2_dev_freespace_init(): one step of the scan of the alloc btree, and
\* at its end the member flag and, back in the caller, bch2_write_super()
bch2_dev_freespace_init(err) ==
    /\ fi.pc = "scan"
    /\ IF fi.pos > NBuckets
       THEN /\ fi' = [fi EXCEPT !.pc = "done", !.ret = "0", !.sb_flag = TRUE]
            /\ dev' = [dev EXCEPT !.freespace_initialized = TRUE]
            /\ UNCHANGED <<freespace, need_discard>>
       ELSE LET ix  == dev_freespace_init_index(fi.pos)
                ret == IF err # "0" THEN err ELSE ix.ret
            IN  IF ret # "0"
                THEN /\ fi' = [fi EXCEPT !.pc = "done", !.ret = ret]
                     /\ UNCHANGED <<freespace, need_discard, dev>>
                ELSE /\ fi' = [fi EXCEPT !.pos = @ + 1,
                                         !.visits[fi.pos] = @ + 1]
                     /\ freespace' = ix.freespace
                     /\ need_discard' = ix.need_discard
                     /\ UNCHANGED dev
    /\ UNCHANGED <<alloc, lru, open, waiting, io_clock, journal, dw, iw>>
    /\ UNCHANGED notMountVars

\* C13: when freespace initialisation has returned 0, every free bucket has
\* its freespace key and every need_discard bucket its need_discard key;
\* the scan visited each bucket once, and not at all on a device whose
\* member info already said freespace_initialized.
C13_FreespaceInit ==
    (fi.pc = "done" /\ fi.ret = "0") =>
        /\ dev.freespace_initialized
        /\ \A b \in Buckets :
              /\ St(b) = "free" => alloc_freespace_pos(b, alloc[b]) \in freespace
              /\ St(b) = "need_discard" => b \in need_discard
              /\ fi.visits[b] = IF fi.was_init THEN 0 ELSE 1

\* a scan has completed on a device with a free and a need_discard bucket
C13_Witness ==
    /\ fi.pc = "done" /\ fi.ret = "0" /\ fi.doing_init
    /\ \E b \in Buckets : St(b) = "free" /\ fi.visits[b] = 1
    /\ \E b \in Buckets : St(b) = "need_discard" /\ fi.visits[b] = 1


\* ------------------------------------------------------------------------
\* libbcachefs.c: bch2_super_write()
\* ------------------------------------------------------------------------
\* sector of the first superblock; the backup copy of the layout is written
\* one sector before it
BCH_SB_SECTOR == 8

\* csum_vstruct(): the checksum covers every field that follows csum
csum_vstruct(s) == <<s.offset, s.dev_idx, s.seq, s.layout>>

NoCsum == <<0, 0, 0, <<>>>>

disk_empty == [written |-> {}, layout_written |-> FALSE, zeroed |-> FALSE,
               synced |-> TRUE, log |-> <<>>]

\* xpwrite() of a superblock at a sector: it replaces what the sector held
xpwrite(d, sector, s) ==
    [d EXCEPT !.written = {w \in @ : w.sector # sector}
                            \cup {[sector |-> sector, sb |-> s]},
              !.synced = FALSE,
              !.log = Append(@, "pwrite")]

\* variant: the checksum is computed before the offset is stored
super_write_copy_csum_first(s, i) ==
    [[s EXCEPT !.csum = csum_vstruct(s)] EXCEPT !.offset = s.layout[i]]

\* the superblock as copy i of the layout is written
super_write_copy(s, i) ==
    LET o == [s EXCEPT !.offset = s.layout[i]]
    IN  [o EXCEPT !.csum = csum_vstruct(o)]

\* bch2_super_write(): one pass of the loop over the layout
bch2_super_write ==
    /\ fmt.pc = "write"
    /\ fmt.i <= Len(sb.layout)
    /\ LET s == super_write_copy(sb, fmt.i)
           d == IF s.offset = BCH_SB_SECTOR
                THEN [disk EXCEPT !.layout_written = TRUE, !.synced = FALSE,
                                  !.log = Append(@, "pwrite_layout")]
                ELSE disk
       IN  /\ sb' = s
           /\ disk' = xpwrite(d, s.offset, s)
    /\ fmt' = [fmt EXCEPT !.i = @ + 1]
    /\ UNCHANGED notFormatVars

\* bch2_super_write(): after the loop, fsync() and return
super_write_fsync ==
    /\ fmt.pc = "write"
    /\ fmt.i > Len(sb.layout)
    /\ disk' = [disk EXCEPT !.synced = TRUE, !.log = Append(@, "fsync")]
    /\ fmt' = [fmt EXCEPT !.pc = "written"]
    /\ UNCHANGED sb
    /\ UNCHANGED notFormatVars

\* the sectors that hold a superblock copy
sb_sectors == {w.sector : w \in disk.written}

layout_offsets == {sb.layout[i] : i \in 1..Len(sb.layout)}

\* C14: a superblock write leaves one copy at every offset of the layout and
\* nowhere else; the checksum of each copy is the checksum of that copy as
\* written, offset included; and the last call before the return is the
\* flush, with nothing written after it.
C14_SuperWrite ==
    /\ \A w \in disk.written :
          /\ w.sb.offset = w.sector
          /\ w.sb.csum = csum_vstruct(w.sb)
    /\ fmt.pc = "written" =>
          /\ sb_sectors = layout_offsets
          /\ Cardinality(disk.written) = Len(sb.layout)
          /\ disk.synced
          /\ disk.log[Len(disk.log)] = "fsync"
          /\ Len(SelectSeq(disk.log, LAMBDA op : op = "pwrite"))
                = Len(sb.layout)

\* a write of a layout of three offsets has returned
C14_Witness ==
    /\ fmt.pc = "written"
    /\ Len(sb.layout) = MaxSuperblocks
    /\ Cardinality(disk.written) = MaxSuperblocks


\* ------------------------------------------------------------------------
\* libbcachefs.c: bch2_format(), the superblocks of each device
\* ------------------------------------------------------------------------
round_up(x, m) == ((x + m - 1) \div m) * m

round_down(x, m) == (x \div m) * m

Min(x, y) == IF x <= y THEN x ELSE y

RECURSIVE rounddown_pow_of_two(_)
rounddown_pow_of_two(n) == IF n <= 1 THEN n ELSE 2 * rounddown_pow_of_two(n \div 2)

\* bch2_pick_bucket_size(): the default range of the superblocks
pick_sb_range(d) ==
    IF d.sb_offset = 0
    THEN [d EXCEPT !.sb_offset = BCH_SB_SECTOR, !.sb_end = BCH_SB_SECTOR + 256]
    ELSE d

\* init_layout(): <<>> when it dies, else the offsets of the layout
init_layout(block_size, start0, end0) ==
    LET start   == IF start0 # BCH_SB_SECTOR
                   THEN round_up(start0, block_size) ELSE start0
        end     == round_down(end0, block_size)
        sb_size == Min(128, end - start \div 2)
        backup  == Min(round_up(start + sb_size, block_size), end)
        size2   == rounddown_pow_of_two(Min(end - backup, backup - start))
    IN  IF start >= end \/ size2 < 8 THEN <<>>
        ELSE <<start, backup>>

\* bch2_format(): one pass of the loop over the devices, up to the call of
\* bch2_super_write()
bch2_format ==
    /\ \/ fmt.pc = "format"
       \/ fmt.pc = "written" /\ fmt.cur < Len(fmt.devs)
    /\ LET d == pick_sb_range(fmt.devs[fmt.cur + 1])
           l == init_layout(fmt.block_size, d.sb_offset, d.sb_end)
       IN  /\ sb' = [sb EXCEPT !.dev_idx = fmt.cur, !.layout = l]
           /\ disk' = [disk_empty EXCEPT
                          !.zeroed = (d.sb_offset = BCH_SB_SECTOR)]
           /\ fmt' = [fmt EXCEPT !.pc = IF l = <<>> THEN "die" ELSE "write",
                                 !.i = 1,
                                 !.cur = @ + 1,
                                 !.devs[fmt.cur + 1] = d]
    /\ UNCHANGED notFormatVars

\* the device being formatted
format_dev == fmt.devs[fmt.cur]

\* a superblock copy at the end of the device, past the range given for the
\* copies at its start
at_device_end(sector) ==
    /\ sector >= format_dev.sb_end
    /\ sector >= format_dev.size - (format_dev.sb_end - format_dev.sb_offset)

\* C15: when a device has been formatted it carries two superblock copies in
\* the range at its start and a third, backup copy at the end of the device.
C15_ThreeCopies ==
    fmt.pc = "written" =>
        /\ Cardinality({s \in sb_sectors : s < format_dev.sb_end}) = 2
        /\ \E s \in sb_sectors : at_device_end(s)


\* ------------------------------------------------------------------------
\* migrate.c: dropping a device's data
\* ------------------------------------------------------------------------
UserBtrees == <<"extents", "reflink">>

ForceFlags == {"BCH_FORCE_IF_DATA_LOST", "BCH_FORCE_IF_DATA_DEGRADED",
               "BCH_FORCE_IF_METADATA_LOST", "BCH_FORCE_IF_METADATA_DEGRADED"}

\* a key: whether it points to the device being dropped, and the durability
\* that is left once that pointer is gone
DropKeys == {[has_dev |-> FALSE, nr_good |-> 1],
             [has_dev |-> TRUE,  nr_good |-> 0],
             [has_dev |-> TRUE,  nr_good |-> 1]}

\* results a btree operation can hand back
IterRets == {"0", "-EINTR", "-EIO"}

\* variant: only the loss of all durability is looked at
drop_dev_ptrs_lost_only(k, metadata) ==
    LET lost == IF metadata THEN "BCH_FORCE_IF_METADATA_LOST"
                            ELSE "BCH_FORCE_IF_DATA_LOST"
    IN  IF k.nr_good = 0 /\ lost \notin opts.flags THEN "-EINVAL" ELSE "0"

drop_dev_ptrs(k, metadata) ==
    LET lost     == IF metadata THEN "BCH_FORCE_IF_METADATA_LOST"
                                ELSE "BCH_FORCE_IF_DATA_LOST"
        degraded == IF metadata THEN "BCH_FORCE_IF_METADATA_DEGRADED"
                                ELSE "BCH_FORCE_IF_DATA_DEGRADED"
    IN  IF \/ (k.nr_good = 0 /\ lost \notin opts.flags)
           \/ (k.nr_good < opts.replicas /\ degraded \notin opts.flags)
        THEN "-EINVAL" ELSE "0"

bch2_bkey_drop_device(k) == [k EXCEPT !.has_dev = FALSE]

\* leaving __bch2_dev_usrdata_drop() with ret: BUG_ON(ret == -EINTR), then
\* the ?: chains of bch2_dev_usrdata_drop() and bch2_dev_data_drop()
usrdata_drop_exit(ret) ==
    IF ret = "-EINTR" THEN [phase |-> "BUG", id |-> dd.id, pos |-> dd.pos,
                            ret |-> ret]
    ELSE IF ret # "0" THEN [phase |-> "done", id |-> dd.id, pos |-> dd.pos,
                            ret |-> ret]
    ELSE IF dd.id < Len(UserBtrees)
         THEN [phase |-> "usrdata", id |-> dd.id + 1, pos |-> 1, ret |-> "0"]
         ELSE [phase |-> "metadata_entry", id |-> 1, pos |-> 1, ret |-> "0"]

\* one evaluation of the loop condition of __bch2_dev_usrdata_drop() and,
\* when it holds, one run of the loop body
bch2_dev_usrdata_drop(peek_ret, commit_ret) ==
    /\ dd.phase = "usrdata"
    /\ LET btree == UserBtrees[dd.id]
           keys  == bkeys[btree]
           k     == keys[dd.pos]
           drop  == drop_dev_ptrs(k, FALSE)
       IN  IF peek_ret # "0"
           THEN dd' = usrdata_drop_exit(peek_ret) /\ UNCHANGED bkeys
           ELSE IF dd.pos > Len(keys)
           THEN dd' = usrdata_drop_exit(dd.ret) /\ UNCHANGED bkeys
           ELSE IF ~k.has_dev
           THEN dd' = [dd EXCEPT !.pos = @ + 1] /\ UNCHANGED bkeys
           ELSE IF drop # "0"
           THEN dd' = usrdata_drop_exit(drop) /\ UNCHANGED bkeys
           ELSE IF commit_ret = "-EINTR"
           THEN dd' = [dd EXCEPT !.ret = "0"] /\ UNCHANGED bkeys
           ELSE IF commit_ret # "0"
           THEN dd' = usrdata_drop_exit(commit_ret) /\ UNCHANGED bkeys
           ELSE /\ dd' = [dd EXCEPT !.ret = "0"]
                /\ bkeys' = [bkeys EXCEPT ![btree][dd.pos] =
                                bch2_bkey_drop_device(k)]
    /\ UNCHANGED <<opts, bnodes, sa>>
    /\ UNCHANGED notRestartVars

\* the first lines of bch2_dev_metadata_drop()
bch2_dev_metadata_drop_entry ==
    /\ dd.phase = "metadata_entry"
    /\ dd' = IF "BCH_FORCE_IF_METADATA_LOST" \in opts.flags
             THEN [dd EXCEPT !.phase = "done", !.ret = "-EINVAL"]
             ELSE [dd EXCEPT !.phase = "metadata"]
    /\ UNCHANGED <<opts, bkeys, bnodes, sa>>
    /\ UNCHANGED notRestartVars

\* leaving bch2_dev_metadata_drop() through err: with ret
metadata_drop_exit(ret) ==
    [dd EXCEPT !.phase = IF ret = "-EINTR" THEN "BUG" ELSE "done",
               !.ret = ret]

\* one evaluation of the loop condition of bch2_dev_metadata_drop() and, when
\* it holds, one run of the loop body; when it fails, the code after the loop
bch2_dev_metadata_drop(peek_ret, update_ret) ==
    /\ dd.phase = "metadata"
    /\ LET nodes == bnodes[dd.id]
           b     == nodes[dd.pos]
           drop  == drop_dev_ptrs(b, TRUE)
       IN  IF peek_ret = "-EINTR"
           THEN dd' = [dd EXCEPT !.ret = "0"] /\ UNCHANGED bnodes
           ELSE IF peek_ret # "0"
           THEN dd' = metadata_drop_exit(peek_ret) /\ UNCHANGED bnodes
           ELSE IF dd.pos > Len(nodes)
           THEN /\ dd' = IF dd.id < NBtreeIds
                         THEN [dd EXCEPT !.id = @ + 1, !.pos = 1,
                                         !.ret = "0"]
                         ELSE metadata_drop_exit("0")
                /\ UNCHANGED bnodes
           ELSE IF ~b.has_dev
           THEN dd' = [dd EXCEPT !.pos = @ + 1] /\ UNCHANGED bnodes
           ELSE IF drop # "0"
           THEN dd' = metadata_drop_exit(drop) /\ UNCHANGED bnodes
           ELSE IF update_ret = "-EINTR"
           THEN dd' = [dd EXCEPT !.ret = "0"] /\ UNCHANGED bnodes
           ELSE IF update_ret # "0"
           THEN dd' = metadata_drop_exit(update_ret) /\ UNCHANGED bnodes
           ELSE /\ dd' = [dd EXCEPT !.pos = @ + 1, !.ret = "0"]
                /\ bnodes' = [bnodes EXCEPT ![dd.id][dd.pos] =
                                bch2_bkey_drop_device(b)]
    /\ UNCHANGED <<opts, bkeys, sa>>
    /\ UNCHANGED notRestartVars

\* the force flag a drop from key k needs and the caller did not pass
force_missing(k, lost, degraded) ==
    \/ k.nr_good = 0 /\ lost \notin opts.flags
    \/ k.nr_good < opts.replicas /\ degraded \notin opts.flags

\* C16: the pointers to the device are dropped from a key only when no force
\* flag is missing for it, and a drop for which the 'lost' or the 'degraded'
\* flag is missing ends the operation with -EINVAL, the key left as it was.
C16_DropNeedsForce ==
    /\ [][\A i \in 1..Len(UserBtrees), p \in 1..NKeys :
            bkeys'[UserBtrees[i]][p] # bkeys[UserBtrees[i]][p] =>
                ~force_missing(bkeys[UserBtrees[i]][p],
                               "BCH_FORCE_IF_DATA_LOST",
                               "BCH_FORCE_IF_DATA_DEGRADED")]_vars
    /\ [][\A i \in 1..NBtreeIds, p \in 1..NNodes :
            bnodes'[i][p] # bnodes[i][p] =>
                ~force_missing(bnodes[i][p],
                               "BCH_FORCE_IF_METADATA_LOST",
                               "BCH_FORCE_IF_METADATA_DEGRADED")]_vars
    /\ [][\A r \in IterRets :
            (/\ bch2_dev_usrdata_drop("0", r)
             /\ dd.pos <= NKeys
             /\ bkeys[UserBtrees[dd.id]][dd.pos].has_dev
             /\ force_missing(bkeys[UserBtrees[dd.id]][dd.pos],
                              "BCH_FORCE_IF_DATA_LOST",
                              "BCH_FORCE_IF_DATA_DEGRADED"))
            => (dd'.phase = "done" /\ dd'.ret = "-EINVAL")]_vars
    /\ [][\A r \in IterRets :
            (/\ bch2_dev_metadata_drop("0", r)
             /\ dd.pos <= NNodes
             /\ bnodes[dd.id][dd.pos].has_dev
             /\ force_missing(bnodes[dd.id][dd.pos],
                              "BCH_FORCE_IF_METADATA_LOST",
                              "BCH_FORCE_IF_METADATA_DEGRADED"))
            => (dd'.phase = "done" /\ dd'.ret = "-EINVAL")]_vars

\* a drop was refused for a missing force flag, and another key of the same
\* run had its pointers dropped
C16_Witness ==
    /\ dd.phase = "done" /\ dd.ret = "-EINVAL"
    /\ "BCH_FORCE_IF_METADATA_LOST" \notin opts.flags
    /\ \E i \in 1..Len(UserBtrees), p \in 1..NKeys :
          LET k == bkeys[UserBtrees[i]][p]
          IN  k.has_dev /\ force_missing(k, "BCH_FORCE_IF_DATA_LOST",
                                         "BCH_FORCE_IF_DATA_DEGRADED")

\* ------------------------------------------------------------------------
\* cmd_fusemount.c: bcachefs_fuse_setattr()
\* ------------------------------------------------------------------------
\* one pass from retry: to err:
bcachefs_fuse_setattr(peek_ret, commit_ret) ==
    /\ sa.pc = "retry"
    /\ LET ret == IF peek_ret # "0" THEN peek_ret ELSE commit_ret
       IN  sa' = IF ret = "-EINTR" THEN sa
                 ELSE [pc |-> "replied", ret |-> ret]
    /\ UNCHANGED <<opts, bkeys, bnodes, dd>>
    /\ UNCHANGED notRestartVars

\* C3: a transaction restart is never surfaced: the data-drop operations and
\* the FUSE attribute update never end with -EINTR, neither as their result
\* nor in the BUG_ON(ret == -EINTR) that guards it.
C3_RestartAbsorbed ==
    /\ dd.phase # "BUG"
    /\ dd.phase = "done" => dd.ret # "-EINTR"
    /\ sa.pc = "replied" => sa.ret # "-EINTR"


\* ------------------------------------------------------------------------
\* btree_iter.c: btree node locking
\* ------------------------------------------------------------------------
Trans == 1..NTrans
PathIdx == 1..NPaths
Btrees == 1..NBtrees
Levels == {0, 1}
SPOS_MAX == MaxPos + 1

\* the shape of the btrees: btree 1 has a root at level 1 above one leaf per
\* key position, every other btree is a single node, root and leaf at once
btree_root_level(id) == IF id = 1 THEN 1 ELSE 0

\* btrees whose keys also live in the key cache
btree_id_cached(id) == id = 1

KeyPositions(id) == IF btree_root_level(id) = 0 THEN {1} ELSE 1..MaxPos

Unlocked == [l \in Levels |-> "none"]

NoPath == [btree |-> 0, cached |-> FALSE, pos |-> 0, locks_want |-> 0,
           locked |-> Unlocked]

NoWait == [path |-> 0, level |-> 0, type |-> "none"]

LockRank == [none |-> 0, read |-> 1, intent |-> 2]

path_used(path) == path.btree # 0

nodes_locked(path) == {l \in Levels : path.locked[l] # "none"}

nodes_intent_locked(path) == {l \in Levels : path.locked[l] = "intent"}

\* __fls(path->nodes_locked)
top_locked(path) == CHOOSE l \in nodes_locked(path) :
                        \A m \in nodes_locked(path) : m <= l

\* the node a path points to at a level, named by btree, level and the
\* position btree_node_pos() gives for it
path_node(path, level) ==
    IF path.cached
    THEN [btree |-> path.btree, cached |-> TRUE, level |-> 0, pos |-> path.pos]
    ELSE [btree |-> path.btree, cached |-> FALSE, level |-> level,
          pos |-> IF level = btree_root_level(path.btree)
                  THEN SPOS_MAX ELSE path.pos]

\* the level a path wants to end up at has been locked
path_uptodate(path) == path.locked[0] # "none"

\* the level btree_path_traverse_one() locks next
path_next_level(path) ==
    IF path.cached THEN 0
    ELSE IF nodes_locked(path) = {} THEN btree_root_level(path.btree)
    ELSE top_locked(path) - 1

__btree_lock_want(path, level) ==
    IF level < path.locks_want THEN "intent" ELSE "read"

\* the type of lock a path of ps (the paths of one transaction) holds on n
held_type(ps, p, n) ==
    IF path_used(ps[p]) /\ path_node(ps[p], n.level) = n
    THEN ps[p].locked[n.level] ELSE "none"

trans_holds(ps, n, type) == \E p \in PathIdx : held_type(ps, p, n) = type

holders(t, ps, n, type) ==
    {u \in Trans : trans_holds(IF u = t THEN ps ELSE paths[u], n, type)}

wait_node(u) == path_node(paths[u][trans[u].wait.path], trans[u].wait.level)

write_locking(n) ==
    \E u \in Trans : trans[u].wait.type = "write" /\ wait_node(u) = n

six_trylock_type(t, ps, n, type) ==
    IF type = "read" THEN n \notin wlocked /\ ~write_locking(n)
    ELSE IF type = "intent" THEN holders(t, ps, n, "intent") = {}
    ELSE holders(t, ps, n, "read") \ {t} = {}

btree_node_lock_increment(ps, n, type) ==
    \E p \in PathIdx : LockRank[held_type(ps, p, n)] >= LockRank[type]

\* variant: no ordering between btrees
deadlock_reason_no_btree_order(path, pos, level, type, linked) ==
    IF nodes_locked(linked) = {} THEN 0
    ELSE IF type = "intent"
            /\ nodes_locked(linked) # nodes_intent_locked(linked) THEN 1
    ELSE IF linked.btree # path.btree THEN 0
    ELSE IF linked.cached # path.cached
         THEN IF ~linked.cached THEN 0 ELSE 4
    ELSE IF level > top_locked(linked) THEN 5
    ELSE IF /\ linked.locked[level] # "none"
            /\ pos <= path_node(linked, level).pos THEN 7
    ELSE 0

\* variant: an intent lock may be waited for while nodes are read locked
deadlock_reason_read_locks_ignored(path, pos, level, type, linked) ==
    IF nodes_locked(linked) = {} THEN 0
    ELSE IF linked.btree # path.btree
         THEN IF linked.btree < path.btree THEN 0 ELSE 3
    ELSE IF linked.cached # path.cached
         THEN IF ~linked.cached THEN 0 ELSE 4
    ELSE IF level > top_locked(linked) THEN 5
    ELSE IF /\ linked.locked[level] # "none"
            /\ pos <= path_node(linked, level).pos THEN 7
    ELSE 0

\* variant: it is always safe to block
deadlock_reason_none(path, pos, level, type, linked) == 0

\* the body of the loop of __bch2_btree_node_lock(): the reason why blocking
\* would deadlock against the locks of linked, or 0
deadlock_reason(path, pos, level, type, linked) ==
    IF nodes_locked(linked) = {} THEN 0
    ELSE IF type = "intent"
            /\ nodes_locked(linked) # nodes_intent_locked(linked) THEN 1
    ELSE IF linked.btree # path.btree
         THEN IF linked.btree < path.btree THEN 0 ELSE 3
    ELSE IF linked.cached # path.cached
         THEN IF ~linked.cached THEN 0 ELSE 4
    ELSE IF level > top_locked(linked) THEN 5
    ELSE IF /\ linked.locked[level] # "none"
            /\ pos <= path_node(linked, level).pos THEN 7
    ELSE 0

\* __bch2_btree_node_lock(): 0 when the request may block, else the reason
\* of the first linked path that forbids it
__bch2_btree_node_lock(ps, p, pos, level, type) ==
    LET bad == {q \in PathIdx : path_used(ps[q]) /\
                    deadlock_reason(ps[p], pos, level, type, ps[q]) # 0}
    IN  IF bad = {} THEN 0
        ELSE LET q == CHOOSE q \in bad : \A r \in bad : q <= r
             IN  deadlock_reason(ps[p], pos, level, type, ps[q])

trans_write_locks(t) == {n \in wlocked : trans_holds(paths[t], n, "intent")}

\* the transaction is running: not blocked in a lock, not restarted, and not
\* between taking and dropping the write locks of a commit
trans_running(t) ==
    /\ ~trans[t].restarted
    /\ trans[t].wait = NoWait
    /\ trans_write_locks(t) = {}

\* mark_btree_node_locked() and the end of btree_path_down(): a read lock on
\* the parent is dropped
path_locked(path, level, type) ==
    [path EXCEPT !.locked =
        [l \in Levels |->
            IF l = level THEN type
            ELSE IF l = level + 1 /\ path.locked[l] = "read" THEN "none"
            ELSE path.locked[l]]]

\* btree_node_lock() for the next node of path p, as btree_path_lock_root(),
\* btree_path_down() or bch2_btree_path_traverse_cached() call it;
\* bch2_btree_node_get() may have dropped a read lock on the parent before
\* it asks.  The result: the paths of the transaction, and whether the node
\* was locked, the transaction restarted, or the request has to block
btree_node_lock(t, ps0, p, drop_parent) ==
    LET level == path_next_level(ps0[p])
        type  == __btree_lock_want(ps0[p], level)
        n     == path_node(ps0[p], level)
        path0 == IF drop_parent
                 THEN [ps0[p] EXCEPT !.locked =
                         [l \in Levels |->
                             IF l = level + 1 /\ @[l] = "read"
                             THEN "none" ELSE @[l]]]
                 ELSE ps0[p]
        ps    == [ps0 EXCEPT ![p] = path0]
        why   == __bch2_btree_node_lock(ps, p, n.pos, level, type)
    IN  IF \/ six_trylock_type(t, ps, n, type)
           \/ btree_node_lock_increment(ps, n, type)
        THEN [ps |-> [ps EXCEPT ![p] = path_locked(path0, level, type)],
              ret |-> "0", reason |-> 0, wait |-> NoWait]
        ELSE IF why # 0
        THEN [ps |-> [ps EXCEPT ![p].locked = Unlocked],
              ret |-> "-EINTR", reason |-> why, wait |-> NoWait]
        ELSE [ps |-> ps, ret |-> "blocked", reason |-> 0,
              wait |-> [path |-> p, level |-> level, type |-> type]]

\* the loop of btree_path_traverse_one(): lock one node after the other down
\* to the leaf, until a lock fails or has to block
RECURSIVE traverse_down(_, _, _, _)
traverse_down(t, ps, p, drop_parent) ==
    LET r == btree_node_lock(t, ps, p, drop_parent)
    IN  IF r.ret = "0" /\ ~path_uptodate(r.ps[p])
        THEN traverse_down(t, r.ps, p, drop_parent)
        ELSE r

\* bch2_path_get() and bch2_btree_path_traverse() of a new path.  A path that
\* holds no lock takes no part in locking: it is a free slot of the model
\* until it is traversed
bch2_btree_path_traverse(t, btree, cached, pos, locks_want, drop_parent) ==
    /\ trans_running(t)
    /\ \E p \in PathIdx : ~path_used(paths[t][p])
    /\ cached => (btree_id_cached(btree) /\ locks_want <= 1)
    /\ pos \in (IF cached THEN {1} ELSE KeyPositions(btree))
    /\ locks_want <= btree_root_level(btree) + 1
    /\ LET p    == CHOOSE p \in PathIdx :
                       /\ ~path_used(paths[t][p])
                       /\ \A q \in 1..(p - 1) : path_used(paths[t][q])
           path == [btree |-> btree, cached |-> cached, pos |-> pos,
                    locks_want |-> locks_want, locked |-> Unlocked]
           r    == traverse_down(t, [paths[t] EXCEPT ![p] = path], p,
                                 drop_parent)
       IN  /\ paths' = [paths EXCEPT ![t] =
                           IF r.ret = "-EINTR"
                           THEN [r.ps EXCEPT ![p] = NoPath] ELSE r.ps]
           /\ trans' = [trans EXCEPT ![t].restarted = (r.ret = "-EINTR"),
                                     ![t].reason = r.reason,
                                     ![t].wait = r.wait]
    /\ UNCHANGED wlocked
    /\ UNCHANGED notLockVars

\* bch2_btree_node_lock_write() at commit, for the leaf of a path that holds
\* it with an intent lock; write locks are taken in path order
node_before(m, n) ==
    \/ m.btree < n.btree
    \/ m.btree = n.btree /\ ~m.cached /\ n.cached
    \/ m.btree = n.btree /\ m.cached = n.cached /\ m.pos < n.pos

\* have_conflicting_read_lock(): before a commit blocks in a write lock, the
\* read locks of the transaction are upgraded to intent locks; one that
\* cannot be upgraded is a conflict
read_locked(path) == path_used(path) /\ nodes_locked(path) # nodes_intent_locked(path)

have_conflicting_read_lock(t) ==
    \E p \in PathIdx :
        /\ read_locked(paths[t][p])
        /\ holders(t, paths[t], path_node(paths[t][p], 0), "intent") \ {t} # {}

bch2_btree_path_upgrade(path) ==
    IF read_locked(path)
    THEN [path EXCEPT !.locks_want = Max(@, 1),
                      !.locked = [l \in Levels |->
                                    IF @[l] = "read" THEN "intent" ELSE @[l]]]
    ELSE path

bch2_btree_node_lock_write(t, p) ==
    /\ ~trans[t].restarted
    /\ trans[t].wait = NoWait
    /\ path_used(paths[t][p])
    /\ paths[t][p].locked[0] = "intent"
    /\ LET n == path_node(paths[t][p], 0)
       IN  /\ n \notin wlocked
           /\ \A m \in trans_write_locks(t) : node_before(m, n)
           /\ IF six_trylock_type(t, paths[t], n, "write")
              THEN /\ wlocked' = wlocked \cup {n}
                   /\ UNCHANGED <<paths, trans>>
              ELSE IF have_conflicting_read_lock(t)
              THEN /\ wlocked' = wlocked \ trans_write_locks(t)
                   /\ trans' = [trans EXCEPT ![t].restarted = TRUE]
                   /\ UNCHANGED paths
              ELSE /\ paths' = [paths EXCEPT ![t] =
                                  [q \in PathIdx |->
                                      bch2_btree_path_upgrade(@[q])]]
                   /\ trans' = [trans EXCEPT ![t].wait =
                                  [path |-> p, level |-> 0, type |-> "write"]]
                   /\ UNCHANGED wlocked
    /\ UNCHANGED notLockVars

\* a blocked six_lock_type() returns with the lock, and a traversal goes on
\* from there
six_lock_type(t, drop_parent) ==
    /\ trans[t].wait # NoWait
    /\ LET w  == trans[t].wait
           n  == wait_node(t)
           ps == [paths[t] EXCEPT ![w.path] = path_locked(@, w.level, w.type)]
           r  == IF path_uptodate(ps[w.path])
                 THEN [ps |-> ps, ret |-> "0", reason |-> 0, wait |-> NoWait]
                 ELSE traverse_down(t, ps, w.path, drop_parent)
       IN  /\ six_trylock_type(t, paths[t], n, w.type)
           /\ IF w.type = "write"
              THEN /\ wlocked' = wlocked \cup {n}
                   /\ trans' = [trans EXCEPT ![t].wait = NoWait]
                   /\ UNCHANGED paths
              ELSE /\ paths' = [paths EXCEPT ![t] =
                                  IF r.ret = "-EINTR"
                                  THEN [r.ps EXCEPT ![w.path] = NoPath]
                                  ELSE r.ps]
                   /\ trans' = [trans EXCEPT
                                  ![t].restarted = (r.ret = "-EINTR"),
                                  ![t].reason = r.reason,
                                  ![t].wait = r.wait]
                   /\ UNCHANGED wlocked
    /\ UNCHANGED notLockVars

\* the end of a commit: the write locks are dropped
bch2_trans_unlock_write(t) ==
    /\ trans[t].wait = NoWait
    /\ trans_write_locks(t) # {}
    /\ wlocked' = wlocked \ trans_write_locks(t)
    /\ UNCHANGED <<paths, trans>>
    /\ UNCHANGED notLockVars

\* bch2_trans_begin() of a restarted transaction: bch2_trans_unlock(), and
\* every path is traversed again
bch2_trans_begin(t) ==
    /\ trans[t].restarted
    /\ paths' = [paths EXCEPT ![t] = [p \in PathIdx |-> NoPath]]
    /\ trans' = [trans EXCEPT ![t].restarted = FALSE, ![t].reason = 0]
    /\ UNCHANGED wlocked
    /\ UNCHANGED notLockVars

\* bch2_trans_exit(): every path is unlocked and freed
bch2_trans_exit(t) ==
    /\ trans[t].wait = NoWait
    /\ trans_write_locks(t) = {}
    /\ \E p \in PathIdx : path_used(paths[t][p])
    /\ paths' = [paths EXCEPT ![t] = [p \in PathIdx |-> NoPath]]
    /\ trans' = [trans EXCEPT ![t] =
                    [restarted |-> FALSE, reason |-> 0, wait |-> NoWait]]
    /\ UNCHANGED wlocked
    /\ UNCHANGED notLockVars


\* ------------------------------------------------------------------------
\* Properties of node locking
\* ------------------------------------------------------------------------
\* the nodes a transaction holds locked, through any of its paths
held_nodes(t) ==
    {path_node(paths[t][p], l) : <<p, l>> \in
        {x \in PathIdx \X Levels :
            path_used(paths[t][x[1]]) /\ x[2] \in nodes_locked(paths[t][x[1]])}}

\* locking n while h is held goes against the lock order: btrees by
\* ascending id, within a btree the btree before the key cache, within a
\* level by ascending position, and a node before the nodes below it
violates_lock_order(n, h) ==
    \/ h.btree > n.btree
    \/ h.btree = n.btree /\ h.cached /\ ~n.cached
    \/ /\ h.btree = n.btree
       /\ h.cached = n.cached
       /\ \/ h.level = n.level /\ n.pos <= h.pos
          \/ n.level > h.level

lock_blocked(t) == trans[t].wait.type \in {"read", "intent"}

\* C1: a transaction is never blocked in a node lock request that goes
\* against the lock order relative to a node it holds: such a request ends
\* in a restart, and a restarted transaction is not blocked.
C1_NoBlockingOutOfOrder ==
    \A t \in Trans :
        /\ lock_blocked(t) =>
              \A h \in held_nodes(t) : ~violates_lock_order(wait_node(t), h)
        /\ trans[t].restarted => trans[t].wait = NoWait

\* a request against the order met a lock it could not take at once, and the
\* transaction restarted
C1_Witness ==
    \E t \in Trans :
        /\ trans[t].restarted
        /\ trans[t].reason \in {3, 4, 5, 7}
        /\ held_nodes(t) # {}

\* the transactions a waiting transaction waits for
blockers(t) ==
    LET n == wait_node(t)
        w == trans[t].wait.type
    IN  IF w = "read"
        THEN {u \in Trans \ {t} :
                \/ n \in wlocked /\ trans_holds(paths[u], n, "intent")
                \/ trans[u].wait.type = "write" /\ wait_node(u) = n}
        ELSE IF w = "intent"
        THEN {u \in Trans \ {t} : trans_holds(paths[u], n, "intent")}
        ELSE IF w = "write"
        THEN {u \in Trans \ {t} : trans_holds(paths[u], n, "read")}
        ELSE {}

\* C2: there is no set of transactions every one of which waits for a node
\* lock that another transaction of the set holds.
C2_NoDeadlock ==
    \A S \in SUBSET Trans :
        S # {} => \E t \in S : blockers(t) \cap S = {}

\* a transaction that holds node locks waits for a lock of another one
C2_Witness ==
    \E t \in Trans :
        /\ lock_blocked(t)
        /\ held_nodes(t) # {}
        /\ blockers(t) # {}

\* C31: a transaction never waits for an intent lock while one of its paths
\* holds a node locked for read only; a request the first check of
\* __bch2_btree_node_lock() turns down leaves the transaction restarted and
\* not waiting.
C31_NoIntentWaitWithRead ==
    \A t \in Trans :
        /\ trans[t].wait.type = "intent" =>
              \A p \in PathIdx : ~read_locked(paths[t][p])
        /\ trans[t].reason = 1 =>
              trans[t].restarted /\ trans[t].wait = NoWait

\* an intent lock that another transaction holds was asked for by a
\* transaction with a read lock, and the transaction restarted
C31_Witness ==
    \E t \in Trans :
        /\ trans[t].restarted
        /\ trans[t].reason = 1
        /\ \E p \in PathIdx : read_locked(paths[t][p])

\* C33: in the discard worker the transaction holds no btree node locks
\* while the device discard is issued, the cleared need_discard flag is
\* staged with bch2_trans_update() only if bch2_trans_relock() took the locks
\* again afterwards, and a failed relock stages nothing.
C33_DiscardRelock ==
    /\ dw.pc = "unlocked" => ~dw.locked
    /\ dw.staged => dw.relock = "ok"
    /\ dw.relock = "failed" => ~dw.staged

\* ------------------------------------------------------------------------
\* Specifications
\* ------------------------------------------------------------------------
alloc_key_init ==
    [gen |-> GenBase, oldest_gen |-> 0, data_type |-> "none",
     dirty_sectors |-> 0, cached_sectors |-> 0, io_read |-> 0,
     need_discard |-> FALSE, need_inc_gen |-> FALSE, journal_seq |-> 0]

AllocInit ==
    /\ alloc = [b \in Buckets |-> alloc_key_init]
    /\ freespace = {alloc_freespace_pos(b, alloc_key_init) : b \in Buckets}
    /\ need_discard = {}
    /\ lru = {}
    /\ open = {}
    /\ waiting = [b \in Buckets |-> 0]
    /\ io_clock = 0
    /\ journal = [seq |-> 1, flushed |-> 0]
    /\ dev \in {[discard |-> d, freespace_initialized |-> TRUE] :
                    d \in BOOLEAN}
    /\ dw = dw_idle
    /\ iw = [pc |-> "idle"]

AllocIdle ==
    /\ alloc = [b \in Buckets |-> alloc_key_init]
    /\ freespace = {alloc_freespace_pos(b, alloc_key_init) : b \in Buckets}
    /\ need_discard = {}
    /\ lru = {}
    /\ open = {}
    /\ waiting = [b \in Buckets |-> 0]
    /\ io_clock = 0
    /\ journal = [seq |-> 1, flushed |-> 0]
    /\ dev = [discard |-> FALSE, freespace_initialized |-> TRUE]
    /\ dw = dw_idle
    /\ iw = [pc |-> "idle"]

RestartInit ==
    /\ opts \in [flags : SUBSET ForceFlags, replicas : 1..MaxReplicas]
    /\ bkeys \in [{UserBtrees[i] : i \in 1..Len(UserBtrees)} ->
                    [1..NKeys -> DropKeys]]
    /\ bnodes \in [1..NBtreeIds -> [1..NNodes -> DropKeys]]
    /\ dd = [phase |-> "usrdata", id |-> 1, pos |-> 1, ret |-> "0"]
    /\ sa = [pc |-> "retry", ret |-> "0"]

RestartIdle ==
    /\ opts = [flags |-> {}, replicas |-> 1]
    /\ bkeys = [b \in {UserBtrees[i] : i \in 1..Len(UserBtrees)} |->
                    [k \in 1..NKeys |-> [has_dev |-> FALSE, nr_good |-> 1]]]
    /\ bnodes = [i \in 1..NBtreeIds |->
                    [k \in 1..NNodes |-> [has_dev |-> FALSE, nr_good |-> 1]]]
    /\ dd = [phase |-> "done", id |-> 1, pos |-> 1, ret |-> "0"]
    /\ sa = [pc |-> "replied", ret |-> "0"]

MountIdle == fi = fi_idle

sb_init == [offset |-> 0, csum |-> NoCsum, dev_idx |-> 0, seq |-> 0,
            layout |-> <<>>]

FormatIdle ==
    /\ sb = sb_init
    /\ disk = disk_empty
    /\ fmt = [pc |-> "idle", i |-> 1]

\* ------------------------------------------------------------------------
\* btree_iter.c: bch2_trans_iter_init(), bch2_btree_iter_peek_upto(),
\* __bch2_btree_iter_peek(), bch2_btree_iter_peek_slot(),
\* bch2_btree_iter_peek_prev()
\*
\* One btree without snapshots, extents or key cache.  Its leaves are the
\* node ending at bt.split and the node ending at SPOS_MAX (one leaf if
\* bt.split = SPOS_MAX).  bt.disk[p] says what the leaves hold at position
\* p: nothing, a live key, a whiteout, or both (a whiteout sorts before the
\* live key).  bt.journal and bt.updates are the keys of the journal not yet
\* replayed and the transaction's pending updates.
\*
\* it = [pc, flags, start: iter->pos when the call began, pos, search_key,
\* k: the key returned, [p, deleted, src], src "null" for no key, end: the
\* bound of bch2_btree_iter_peek_upto(), ret_pos and prev_pos: iter->pos
\* after the last peek that returned a key and after the one before].
\* bt.size[p] is the size of the extent that ends at p, 0 in a btree whose
\* keys are no extents.

PeekPositions == 0..MaxPos

bpos_successor(pos) == pos + 1

bpos_predecessor(pos) == pos - 1

NullKey == [p |-> 0, deleted |-> FALSE, src |-> "null"]

ErrKey(e) == [p |-> 0, deleted |-> FALSE, src |-> e]

has_key(k) == k.src \in {"btree", "journal", "update"}

\* l->b->key.k.p and l->b->data->min_key of the leaf a position is in
leaf_max(pos) == IF pos <= bt.split THEN bt.split ELSE SPOS_MAX

leaf_min(pos) == IF pos <= bt.split THEN 0 ELSE bt.split + 1

leaf_positions(pos) ==
    {q \in PeekPositions : leaf_min(pos) <= q /\ q <= leaf_max(pos)}

\* bkey_iter_pos_cmp(k, pos) >= 0: a whiteout at pos itself sorts before pos
bkey_iter_pos_ge(q, deleted, pos) == q > pos \/ (q = pos /\ ~deleted)

\* bch2_btree_node_iter_peek_all() of the leaf, its iterator at pos
btree_path_level_peek_all(pos) ==
    LET c == {q \in leaf_positions(pos) :
                 \/ bt.disk[q] \in {"live", "both"} /\ bkey_iter_pos_ge(q, FALSE, pos)
                 \/ bt.disk[q] \in {"deleted", "both"} /\ bkey_iter_pos_ge(q, TRUE, pos)}
    IN  IF c = {} THEN NullKey
        ELSE LET q == CHOOSE x \in c : \A y \in c : x <= y
             IN  [p |-> q, src |-> "btree",
                  deleted |-> bt.disk[q] \in {"deleted", "both"}
                                /\ bkey_iter_pos_ge(q, TRUE, pos)]

\* bch2_btree_node_iter_peek(): as above, whiteouts passed over
btree_path_level_peek(pos) ==
    LET c == {q \in leaf_positions(pos) : bt.disk[q] \in {"live", "both"} /\ q >= pos}
    IN  IF c = {} THEN NullKey
        ELSE [p |-> CHOOSE x \in c : \A y \in c : x <= y, src |-> "btree",
              deleted |-> FALSE]

\* bch2_btree_node_iter_prev(): the live key of the leaf before the place
\* btree_path_level_peek() stood at
btree_path_level_prev(pos) ==
    LET c == {q \in leaf_positions(pos) : bt.disk[q] \in {"live", "both"} /\ q < pos}
    IN  IF c = {} THEN NullKey
        ELSE [p |-> CHOOSE x \in c : \A y \in c : x >= y, src |-> "btree",
              deleted |-> FALSE]

\* the first key of a list of keys at or after pos
keys_peek(keys, src, pos) ==
    LET c == {q \in PeekPositions : keys[q] # "none" /\ q >= pos}
    IN  IF c = {} THEN NullKey
        ELSE LET q == CHOOSE x \in c : \A y \in c : x <= y
             IN  [p |-> q, src |-> src, deleted |-> keys[q] = "deleted"]

bch2_journal_keys_peek(pos) == keys_peek(bt.journal, "journal", pos)

btree_trans_peek_updates(pos) == keys_peek(bt.updates, "update", pos)

\* variant: the journaled key wins only when it is before the candidate
btree_trans_peek_journal_before_only(k, pos) ==
    LET j == bch2_journal_keys_peek(pos)
    IN  IF has_key(j) /\ j.p < (IF has_key(k) THEN k.p ELSE leaf_max(pos))
        THEN j ELSE k

btree_trans_peek_journal(k, pos) ==
    LET j == bch2_journal_keys_peek(pos)
    IN  IF has_key(j) /\ j.p <= (IF has_key(k) THEN k.p ELSE leaf_max(pos))
        THEN j ELSE k

\* variant: the search goes on after the whiteout
whiteout_search_key_after(search_key, kp) == bpos_successor(kp)

\* where the search goes on after a whiteout at kp
whiteout_search_key(search_key, kp) ==
    IF search_key # kp THEN kp ELSE bpos_successor(kp)

\* the candidate of one pass of the loop of __bch2_btree_iter_peek()
peek_candidate(search_key) ==
    LET k0 == btree_path_level_peek_all(search_key)
        k1 == IF "BTREE_ITER_WITH_JOURNAL" \in it.flags
              THEN btree_trans_peek_journal(k0, search_key) ELSE k0
        u  == IF "BTREE_ITER_WITH_UPDATES" \in it.flags
              THEN btree_trans_peek_updates(search_key) ELSE NullKey
    IN  IF has_key(u) /\ u.p <= (IF has_key(k1) THEN k1.p ELSE leaf_max(search_key))
        THEN u ELSE k1

it_idle == [pc |-> "idle", flags |-> {}, start |-> 0, pos |-> 0,
            search_key |-> 0, k |-> NullKey, end |-> SPOS_MAX,
            ret_pos |-> -1, prev_pos |-> -1]

bt_idle == [split |-> SPOS_MAX, disk |-> [q \in PeekPositions |-> "none"],
            journal |-> [q \in PeekPositions |-> "none"],
            updates |-> [q \in PeekPositions |-> "none"], replay_done |-> TRUE,
            size |-> [q \in PeekPositions |-> 0]]

PeekIdle ==
    /\ bt = bt_idle
    /\ it = it_idle

\* the flags __bch2_trans_iter_init() adds
iter_init_flags(flags) ==
    IF ~bt.replay_done THEN flags \cup {"BTREE_ITER_WITH_JOURNAL"} ELSE flags

bch2_trans_iter_init(pos, flags) ==
    /\ it.pc = "idle"
    /\ it' = [it_idle EXCEPT !.pc = "init", !.flags = iter_init_flags(flags),
                             !.pos = pos, !.start = pos]
    /\ UNCHANGED bt
    /\ UNCHANGED notIterVars

\* bch2_btree_iter_peek_upto(iter, SPOS_MAX) up to its first call of
\* __bch2_btree_iter_peek()
bch2_btree_iter_peek ==
    /\ it.pc = "init"
    /\ it' = [it EXCEPT !.pc = "peek", !.search_key = it.pos]
    /\ UNCHANGED bt
    /\ UNCHANGED notIterVars

\* one pass of the loop of __bch2_btree_iter_peek(), and for a key found the
\* rest of bch2_btree_iter_peek_upto()
btree_iter_peek_pass(traverse_ret) ==
    /\ it.pc = "peek"
    /\ LET k == peek_candidate(it.search_key)
       IN  IF traverse_ret # "0"
           THEN it' = [it EXCEPT !.pc = "done", !.k = ErrKey(traverse_ret)]
           ELSE IF has_key(k) /\ k.deleted
           THEN it' = [it EXCEPT !.search_key = whiteout_search_key(@, k.p)]
           ELSE IF has_key(k)
           THEN it' = [it EXCEPT !.pc = "done", !.k = k, !.pos = k.p]
           ELSE IF leaf_max(it.search_key) # SPOS_MAX
           THEN it' = [it EXCEPT !.search_key = bpos_successor(leaf_max(@))]
           ELSE it' = [it EXCEPT !.pc = "done", !.k = NullKey, !.pos = SPOS_MAX]
    /\ UNCHANGED bt
    /\ UNCHANGED notIterVars

\* bch2_btree_path_peek_slot(): the key at pos, or a hole
bch2_btree_path_peek_slot(pos) ==
    LET k == btree_path_level_peek_all(pos)
    IN  IF has_key(k) /\ k.p = pos THEN k
        ELSE [p |-> pos, deleted |-> TRUE, src |-> "btree"]

bch2_btree_iter_peek_slot(traverse_ret) ==
    /\ it.pc = "init"
    /\ it.pos <= MaxPos
    /\ LET u == btree_trans_peek_updates(it.pos)
           j == bch2_journal_keys_peek(it.pos)
       IN  IF traverse_ret # "0"
           THEN it' = [it EXCEPT !.pc = "slot_done", !.k = ErrKey(traverse_ret)]
           ELSE IF "BTREE_ITER_WITH_UPDATES" \in it.flags /\ has_key(u) /\ u.p = it.pos
           THEN it' = [it EXCEPT !.pc = "slot_done", !.k = u]
           ELSE IF "BTREE_ITER_WITH_JOURNAL" \in it.flags /\ has_key(j) /\ j.p = it.pos
           THEN it' = [it EXCEPT !.pc = "slot_done", !.k = j]
           ELSE it' = [it EXCEPT !.pc = "slot_done",
                                 !.k = bch2_btree_path_peek_slot(it.pos)]
    /\ UNCHANGED bt
    /\ UNCHANGED notIterVars

\* bch2_btree_iter_peek_prev() up to its loop
bch2_btree_iter_peek_prev ==
    /\ it.pc = "init"
    /\ "BTREE_ITER_WITH_UPDATES" \notin it.flags
    /\ IF "BTREE_ITER_WITH_JOURNAL" \in it.flags
       THEN it' = [it EXCEPT !.pc = "prev_done", !.k = ErrKey("-EIO")]
       ELSE it' = [it EXCEPT !.pc = "prev", !.search_key = it.pos]
    /\ UNCHANGED bt
    /\ UNCHANGED notIterVars

\* one pass of the loop of bch2_btree_iter_peek_prev()
btree_iter_peek_prev_pass(traverse_ret) ==
    /\ it.pc = "prev"
    /\ LET k0 == btree_path_level_peek(it.search_key)
           k  == IF ~has_key(k0) \/ k0.p > it.search_key
                 THEN btree_path_level_prev(it.search_key) ELSE k0
       IN  IF traverse_ret # "0"
           THEN it' = [it EXCEPT !.pc = "prev_done", !.k = ErrKey(traverse_ret)]
           ELSE IF has_key(k)
           THEN it' = [it EXCEPT !.pc = "prev_done", !.k = k,
                                 !.pos = IF k.p < it.pos THEN k.p ELSE @]
           ELSE IF leaf_min(it.search_key) # 0
           THEN it' = [it EXCEPT !.search_key = bpos_predecessor(leaf_min(@))]
           ELSE it' = [it EXCEPT !.pc = "prev_done", !.k = NullKey, !.pos = 0]
    /\ UNCHANGED bt
    /\ UNCHANGED notIterVars

\* what the iterator is to see at a position: a pending update hides the
\* journal's key, which hides the key of the leaves
peek_view(q) ==
    IF "BTREE_ITER_WITH_UPDATES" \in it.flags /\ bt.updates[q] # "none"
    THEN [what |-> bt.updates[q], src |-> "update"]
    ELSE IF ~bt.replay_done /\ bt.journal[q] # "none"
    THEN [what |-> bt.journal[q], src |-> "journal"]
    ELSE [what |-> IF bt.disk[q] \in {"live", "both"} THEN "live" ELSE "none",
          src |-> "btree"]

peek_live_from(pos) ==
    {q \in PeekPositions : q >= pos /\ peek_view(q).what = "live"}

peek_ok == it.pc = "done" /\ it.k.src # "-EINTR"

journal_shown(q) ==
    /\ bt.journal[q] # "none"
    /\ ~("BTREE_ITER_WITH_UPDATES" \in it.flags /\ bt.updates[q] # "none")

btree_is_extents == \E q \in PeekPositions : bt.size[q] > 0

bkey_start_pos(k) == k.p - bt.size[k.p]

\* btree_iter_search_key(): an extent that ends at iter->pos lies before it
btree_iter_search_key ==
    IF "BTREE_ITER_IS_EXTENTS" \in it.flags /\ it.pos # SPOS_MAX
    THEN bpos_successor(it.pos) ELSE it.pos

\* __bch2_trans_iter_init() on a btree of extents or of other keys
trans_iter_init_upto(pos) ==
    /\ it.pc = "idle"
    /\ it' = [it_idle EXCEPT !.pc = "init", !.pos = pos, !.start = pos,
                             !.flags = IF btree_is_extents
                                       THEN {"BTREE_ITER_IS_EXTENTS"} ELSE {}]
    /\ UNCHANGED bt
    /\ UNCHANGED notIterVars

\* bch2_btree_iter_peek_upto() up to its loop
bch2_btree_iter_peek_upto(end) ==
    /\ it.pc = "init" \/ (it.pc = "done" /\ has_key(it.k))
    /\ it' = [it EXCEPT !.pc = "upto", !.end = end, !.start = it.pos,
                        !.search_key = btree_iter_search_key]
    /\ UNCHANGED bt
    /\ UNCHANGED notIterVars

\* iter_pos in bch2_btree_iter_peek_upto(): the position of the key, for an
\* extent its start or iter->pos if it straddles that
peek_upto_iter_pos(k) ==
    IF "BTREE_ITER_IS_EXTENTS" \notin it.flags THEN k.p
    ELSE IF bkey_start_pos(k) > it.pos THEN bkey_start_pos(k)
    ELSE it.pos

\* variant: the key is returned whatever the end is
peek_upto_found_no_end(k) ==
    [it EXCEPT !.pc = "done", !.k = k, !.pos = peek_upto_iter_pos(k),
               !.ret_pos = peek_upto_iter_pos(k), !.prev_pos = it.ret_pos]

\* bch2_btree_iter_peek_upto() once __bch2_btree_iter_peek() gave a key
peek_upto_found(k) ==
    IF peek_upto_iter_pos(k) > it.end
    THEN [it EXCEPT !.pc = "done", !.k = NullKey, !.pos = it.end]
    ELSE [it EXCEPT !.pc = "done", !.k = k, !.pos = peek_upto_iter_pos(k),
                    !.ret_pos = peek_upto_iter_pos(k), !.prev_pos = it.ret_pos]

\* one pass of the loop of __bch2_btree_iter_peek(), and for a key found the
\* rest of bch2_btree_iter_peek_upto()
btree_iter_peek_upto_pass(traverse_ret) ==
    /\ it.pc = "upto"
    /\ LET pass(k) ==
               IF traverse_ret # "0"
               THEN [it EXCEPT !.pc = "done", !.k = ErrKey(traverse_ret)]
               ELSE IF has_key(k) /\ k.deleted
               THEN [it EXCEPT !.search_key = whiteout_search_key(@, k.p)]
               ELSE IF has_key(k)
               THEN peek_upto_found(k)
               ELSE IF leaf_max(it.search_key) # SPOS_MAX
               THEN [it EXCEPT !.search_key = bpos_successor(leaf_max(@))]
               ELSE [it EXCEPT !.pc = "done", !.k = NullKey, !.pos = SPOS_MAX]
       IN  it' = pass(peek_candidate(it.search_key))
    /\ UNCHANGED bt
    /\ UNCHANGED notIterVars

\* bch2_btree_iter_advance() after a key was returned
bch2_btree_iter_advance ==
    /\ it.pc = "done"
    /\ has_key(it.k)
    /\ it' = [it EXCEPT !.pc = "init",
                        !.pos = IF "BTREE_ITER_IS_EXTENTS" \in it.flags
                                THEN it.k.p ELSE bpos_successor(it.k.p)]
    /\ UNCHANGED bt
    /\ UNCHANGED notIterVars

\* the live keys a peek from pos may return: at or after pos, extents that
\* end after pos
upto_live_from(pos) ==
    {q \in PeekPositions :
        /\ bt.disk[q] \in {"live", "both"}
        /\ IF btree_is_extents THEN q > pos ELSE q >= pos}

\* where the iterator stands at a key: for an extent at its start, or where
\* the iterator stood if the extent covers that
upto_key_pos(q, pos) ==
    IF ~btree_is_extents THEN q
    ELSE IF q - bt.size[q] > pos THEN q - bt.size[q] ELSE pos

upto_ok == it.pc = "done" /\ it.k.src # "-EINTR"

\* the three statements of the claim, the first for the position p of the
\* key returned or for the place the iterator stands at
upto_claim(returned_by_p) ==
    LET live == upto_live_from(it.start)
        first == CHOOSE x \in live : \A y \in live : x <= y
    IN  /\ upto_ok /\ has_key(it.k) =>
              /\ returned_by_p => it.k.p <= it.end
              /\ it.pos <= it.end
        /\ upto_ok /\ live # {} =>
              IF upto_key_pos(first, it.start) > it.end
              THEN it.k = NullKey /\ it.pos = it.end
              ELSE has_key(it.k) /\ it.k.p = first
        /\ it.prev_pos <= it.ret_pos

\* C37 as stated: bch2_btree_iter_peek_upto never returns a key whose
\* position lies beyond the end; when the next key lies beyond it no key is
\* returned and the iterator is left at the end; over successive peeks that
\* return a key the iterator's position never decreases.
C37_PeekUptoKeyWithinEnd == upto_claim(TRUE)

\* C37: bch2_btree_iter_peek_upto never returns a key that lies beyond the
\* end, an extent counting by its start or, if it covers the iterator's
\* position, by that position, so that an extent which starts at or before
\* the end is returned even if it ends beyond it; when the next key lies
\* beyond the end no key is returned and the iterator is left at the end;
\* over successive peeks that return a key the iterator's position never
\* decreases.
C37_PeekUptoWithinEnd == upto_claim(FALSE)

\* a second peek on extents returned the next extent, which ends beyond the
\* end it was given
C37_Witness ==
    /\ upto_ok
    /\ has_key(it.k)
    /\ btree_is_extents
    /\ it.prev_pos >= 0
    /\ it.prev_pos < it.ret_pos
    /\ it.k.p > it.end

\* a peek met a key beyond its end and left the iterator at the end
C37_WitnessBeyond ==
    /\ upto_ok
    /\ it.k = NullKey
    /\ upto_live_from(it.start) # {}
    /\ it.pos = it.end
    /\ it.end < SPOS_MAX

\* ------------------------------------------------------------------------
\* linux/blkdev.c: generic_make_request(), submit_bio_wait(), aio_op(),
\* aio_completion_thread()
\*
\* bios[b] = [op, preflush, fua, wait: submitted through submit_bio_wait(),
\* st: "new", "inflight" or "ended", endio: calls of bi_end_io so far,
\* status, done: the count of the completion, waiter: the thread in
\* submit_bio_wait()].  aio = [fops: the backend blkdev_init() settled on,
\* inflight: iocbs the kernel holds, events: completions io_getevents() has
\* not returned yet, running_requests, dead: die() was called or an assertion
\* failed, stop: how far the iocb of aio_cleanup() has come, before: the
\* events that were queued when it completed].

Bios == 1..NBios

IoRes == {"full", "short"}

bio_new == [op |-> "REQ_OP_READ", preflush |-> FALSE, fua |-> FALSE,
            wait |-> FALSE, st |-> "new", endio |-> 0,
            status |-> "BLK_STS_OK", done |-> 0, waiter |-> "none"]

aio_idle == [fops |-> "sync", inflight |-> {}, events |-> {},
             running_requests |-> 0, dead |-> FALSE,
             stop |-> "none", before |-> {}]

BioIdle ==
    /\ bios = [b \in Bios |-> bio_new]
    /\ aio = aio_idle

\* bio_endio(): bi_end_io is called; for submit_bio_wait() that is
\* submit_bio_wait_endio(), which completes bi_private
bio_endio(r) ==
    [r EXCEPT !.st = "ended", !.endio = @ + 1,
              !.done = IF r.wait THEN @ + 1 ELSE @]

io_die == aio' = [aio EXCEPT !.dead = TRUE]

\* generic_make_request() for a read or a write, called by submit_bio(); in
\* submit_bio_wait() the caller then sleeps in wait_for_completion()
generic_make_request(b, flush_err, submit_ok, res) ==
    /\ ~aio.dead
    /\ aio.stop = "none"
    /\ bios[b].st = "new"
    /\ LET r == [bios[b] EXCEPT !.waiter = IF bios[b].wait THEN "waiting" ELSE "none"]
       IN  IF r.preflush /\ flush_err
           THEN /\ bios' = [bios EXCEPT ![b] =
                               bio_endio([r EXCEPT !.status = "BLK_STS_IOERR"])]
                /\ UNCHANGED aio
           ELSE IF aio.fops = "aio"
           THEN \* aio_op()
                IF submit_ok
                THEN /\ bios' = [bios EXCEPT ![b] = [r EXCEPT !.st = "inflight"]]
                     /\ aio' = [aio EXCEPT !.running_requests = @ + 1,
                                           !.inflight = @ \cup {b}]
                ELSE /\ bios' = [bios EXCEPT ![b] = [r EXCEPT !.st = "inflight"]]
                     /\ aio' = [aio EXCEPT !.running_requests = @ + 1,
                                           !.dead = TRUE]
           ELSE \* sync_read() / sync_write(), sync_check()
                IF res # "full" \/ (r.fua /\ flush_err)
                THEN /\ bios' = [bios EXCEPT ![b] = [r EXCEPT !.st = "inflight"]]
                     /\ io_die
                ELSE /\ bios' = [bios EXCEPT ![b] = bio_endio(r)]
                     /\ UNCHANGED aio
    /\ UNCHANGED notIoVars

\* the kernel finishes an iocb
io_complete(b, res) ==
    /\ ~aio.dead
    /\ b \in aio.inflight
    /\ aio' = [aio EXCEPT !.inflight = @ \ {b},
                          !.events = @ \cup {[bio |-> b, res |-> res]}]
    /\ UNCHANGED bios
    /\ UNCHANGED notIoVars

\* variant: an event with a short result only sets the status
aio_event_bio_error_no_endio(r, res) ==
    IF res # "full" THEN [r EXCEPT !.status = "BLK_STS_IOERR"] ELSE bio_endio(r)

\* what aio_completion_thread() does with the bio of an event
aio_event_bio(r, res) ==
    bio_endio([r EXCEPT !.status = IF res # "full" THEN "BLK_STS_IOERR" ELSE @])

\* aio_completion_thread(): one event returned by io_getevents()
aio_completion_thread(ev) ==
    /\ ~aio.dead
    /\ ev \in aio.events
    /\ aio.stop # "stopped"
    /\ aio.stop = "event" => ev \in aio.before
    /\ bios' = [bios EXCEPT ![ev.bio] = aio_event_bio(@, ev.res)]
    /\ aio' = [aio EXCEPT !.events = @ \ {ev}, !.running_requests = @ - 1]
    /\ UNCHANGED notIoVars

\* wait_for_completion() in submit_bio_wait() returns
wait_for_completion(b) ==
    /\ ~aio.dead
    /\ bios[b].waiter = "waiting"
    /\ bios[b].done > 0
    /\ bios' = [bios EXCEPT ![b].waiter = "woken", ![b].done = @ - 1]
    /\ UNCHANGED aio
    /\ UNCHANGED notIoVars

\* aio_cleanup(), which blkdev_cleanup() calls when the process exits: an
\* iocb without a bio is submitted to wake the completion thread
aio_cleanup(submit_ok) ==
    /\ ~aio.dead
    /\ aio.fops = "aio"
    /\ aio.stop = "none"
    /\ \A b \in Bios : bios[b].waiter # "waiting"
    /\ aio' = IF submit_ok THEN [aio EXCEPT !.stop = "submitted"]
              ELSE [aio EXCEPT !.dead = TRUE]
    /\ UNCHANGED bios
    /\ UNCHANGED notIoVars

\* the kernel finishes the write to the pipe; its event is queued behind the
\* events that are already there
io_complete_stop ==
    /\ ~aio.dead
    /\ aio.stop = "submitted"
    /\ aio' = [aio EXCEPT !.stop = "event", !.before = aio.events]
    /\ UNCHANGED bios
    /\ UNCHANGED notIoVars

\* variant: the event without a bio stops the thread whatever the counter says
aio_event_stop_unchecked(a) == [a EXCEPT !.stop = "stopped"]

\* what aio_completion_thread() does with an event that has no bio:
\* BUG_ON(atomic_read(&running_requests) != 0); stop = true
aio_event_stop(a) ==
    IF a.running_requests # 0 THEN [a EXCEPT !.dead = TRUE, !.stop = "BUG"]
    ELSE [a EXCEPT !.stop = "stopped"]

\* aio_completion_thread(): io_getevents() returns the event without a bio,
\* after the events queued before it
aio_completion_thread_stop ==
    /\ ~aio.dead
    /\ aio.stop = "event"
    /\ aio.before \cap aio.events = {}
    /\ aio' = aio_event_stop(aio)
    /\ UNCHANGED bios
    /\ UNCHANGED notIoVars

FsckOpts == {"a", "p", "y", "n", "f", "o", "R", "v", "h"}

MountStates == {0, 1, 2}

\* bch2_parse_mount_opts(): 0, or a negative error
ParseRets == {0, -1, -12}

FsFlags == {"BCH_FS_ERRORS_FIXED", "BCH_FS_ERROR"}

\* ret |= bit, for a single bit
or_bit(ret, bit) == IF (ret \div bit) % 2 = 1 THEN ret ELSE ret + bit

\* the status the shell sees for an int handed to exit()
exit_status(ret) == ret % 256

fsck_exit(code) ==
    fsck' = [fsck EXCEPT !.pc = "exited", !.status = exit_status(code)]

\* variant: errors fixed reported by the bit for 2
fsck_flags_ret_fixed_is_2(ret, flags) ==
    LET r1 == IF "BCH_FS_ERRORS_FIXED" \in flags THEN or_bit(ret, 2) ELSE ret
    IN  IF "BCH_FS_ERROR" \in flags THEN or_bit(r1, 4) ELSE r1

\* the two test_bit()s on c->flags
fsck_flags_ret(ret, flags) ==
    LET r1 == IF "BCH_FS_ERRORS_FIXED" \in flags THEN or_bit(ret, 1) ELSE ret
    IN  IF "BCH_FS_ERROR" \in flags THEN or_bit(r1, 4) ELSE r1

\* one pass of the getopt_long() loop
cmd_fsck_getopt(parse_ret) ==
    /\ fsck.pc = "getopt"
    /\ fsck.i <= Len(fsck.args)
    /\ LET opt == fsck.args[fsck.i]
       IN  CASE opt \in {"a", "p", "y"} ->
                  fsck' = [fsck EXCEPT !.fix_errors = "FSCK_OPT_YES", !.i = @ + 1]
             [] opt = "n" ->
                  fsck' = [fsck EXCEPT !.fix_errors = "FSCK_OPT_NO", !.i = @ + 1]
             [] opt = "o" ->
                  IF parse_ret # 0
                  THEN fsck' = [fsck EXCEPT !.pc = "returned_opt",
                                            !.status = exit_status(parse_ret)]
                  ELSE fsck' = [fsck EXCEPT !.i = @ + 1]
             [] opt = "h" -> fsck_exit(16)
             [] OTHER -> fsck' = [fsck EXCEPT !.i = @ + 1]
    /\ UNCHANGED <<dj, pr>>
    /\ UNCHANGED notCliVars

\* args_shift(optind) and the test for devices
cmd_fsck_args_shift ==
    /\ fsck.pc = "getopt"
    /\ fsck.i > Len(fsck.args)
    /\ IF Len(fsck.devs) = 0
       THEN fsck_exit(8)
       ELSE fsck' = [fsck EXCEPT !.pc = "dev_mounted", !.i = 1]
    /\ UNCHANGED <<dj, pr>>
    /\ UNCHANGED notCliVars

\* one pass of the dev_mounted() loop
cmd_fsck_dev_mounted ==
    /\ fsck.pc = "dev_mounted"
    /\ fsck.i <= Len(fsck.devs)
    /\ CASE fsck.devs[fsck.i] = 1 ->
              fsck' = [fsck EXCEPT !.ret = or_bit(@, 2), !.i = @ + 1]
         [] fsck.devs[fsck.i] = 2 -> fsck_exit(8)
         [] OTHER -> fsck' = [fsck EXCEPT !.i = @ + 1]
    /\ UNCHANGED <<dj, pr>>
    /\ UNCHANGED notCliVars

\* bch2_fs_open(), which runs the check, to the return.  Nothing is repaired
\* with fix_errors = FSCK_OPT_NO.
cmd_fsck_open(open_err, flags) ==
    /\ fsck.pc = "dev_mounted"
    /\ fsck.i > Len(fsck.devs)
    /\ "BCH_FS_ERRORS_FIXED" \in flags => fsck.fix_errors # "FSCK_OPT_NO"
    /\ IF open_err
       THEN fsck_exit(8)
       ELSE fsck' = [fsck EXCEPT !.pc = "returned", !.flags = flags,
                                 !.ret = fsck_flags_ret(fsck.ret, flags),
                                 !.status = exit_status(fsck_flags_ret(fsck.ret, flags))]
    /\ UNCHANGED <<dj, pr>>
    /\ UNCHANGED notCliVars

fsck_done == fsck.pc \in {"exited", "returned_opt", "returned"}

fsck_mounted_ro == \E d \in 1..Len(fsck.devs) : fsck.devs[d] = 1

\* C17: fsck exits with status 2 when corruption was detected and fixed (no
\* error left, no device mounted), and only then.
C17_Status2IffFixed ==
    fsck_done =>
        /\ (fsck.flags = {"BCH_FS_ERRORS_FIXED"} /\ ~fsck_mounted_ro)
               => fsck.status = 2
        /\ fsck.status = 2 => "BCH_FS_ERRORS_FIXED" \in fsck.flags

\* C17 as the code has it: detected and fixed corruption sets the bit of
\* value 1 in the exit status, and status 2 is produced exactly when fsck
\* returns for a device that is mounted read-only with no error found.
C17_Status1WhenFixed ==
    fsck_done =>
        /\ "BCH_FS_ERRORS_FIXED" \in fsck.flags => fsck.status % 2 = 1
        /\ (fsck.flags = {"BCH_FS_ERRORS_FIXED"} /\ ~fsck_mounted_ro)
               => fsck.status = 1
        /\ fsck.status = 2 <=>
               (fsck.pc = "returned" /\ fsck_mounted_ro /\ fsck.flags = {})

\* fsck returned after fixing errors on a device that is not mounted
C17_Witness ==
    /\ fsck.pc = "returned"
    /\ fsck.flags = {"BCH_FS_ERRORS_FIXED"}
    /\ ~fsck_mounted_ro
    /\ fsck.status = 1

\* ------------------------------------------------------------------------
\* cmd_data.c: cmd_data_job()
\*
\* dj = [pc, opts: the options given, each [opt, arg], pos: the arguments
\* after the options, i, op: struct bch_ioctl_data, submitted: the ops handed
\* to bchu_data(), status, err: the message of die()].

data_jobs == <<"scrub", "rereplicate", "migrate", "rewrite_old_nodes">>

BCH_DATA_OP_SCRUB == 0

\* the "inode:offset" arguments given with -s and -e
PosArgs == (1..MaxPos) \X (0..1)

bpos_parse(optarg) == [inode |-> optarg[1], offset |-> optarg[2]]

POS_MIN == [inode |-> 0, offset |-> 0]

\* KEY_INODE_MAX:KEY_OFFSET_MAX, after every position that can be given
POS_MAX == [inode |-> MaxPos + 1, offset |-> MaxPos + 1]

DjOpts ==
    [opt : {"s", "e"}, arg : PosArgs]
        \cup {[opt |-> "h", arg |-> <<>>], [opt |-> "b", arg |-> <<>>]}

\* the index of s in the list, -1 where read_string_list_or_die() dies
read_string_list(str, list) ==
    IF \E i \in 1..Len(list) : list[i] = str
    THEN (CHOOSE i \in 1..Len(list) : list[i] = str) - 1
    ELSE -1

dj_op_init == [op |-> 0, start_btree |-> 0, start_pos |-> POS_MIN,
               end_btree |-> NBtreeIds, end_pos |-> POS_MAX]

dj_idle == [pc |-> "idle", opts |-> <<>>, pos |-> <<>>, i |-> 1,
            op |-> dj_op_init, submitted |-> <<>>, status |-> 0, err |-> ""]

dj_die(msg) ==
    dj' = [dj EXCEPT !.pc = "done", !.status = 1, !.err = msg]

\* what getopt(argc, argv, "s:e:h") returns for an option letter
dj_getopt(o) == IF o.opt \in {"s", "e", "h"} THEN o.opt ELSE "?"

\* one pass of the getopt() loop: the statement after the break of case 's'
\* is not reached, and case 'e' is a break
cmd_data_job_getopt ==
    /\ dj.pc = "getopt"
    /\ dj.i <= Len(dj.opts)
    /\ LET o == dj.opts[dj.i]
       IN  CASE dj_getopt(o) = "s" ->
                  dj' = [dj EXCEPT !.op.start_pos = bpos_parse(o.arg), !.i = @ + 1]
             [] dj_getopt(o) = "e" ->
                  dj' = [dj EXCEPT !.i = @ + 1]
             [] dj_getopt(o) = "h" ->
                  dj' = [dj EXCEPT !.pc = "done", !.status = 0]
             [] OTHER -> dj' = [dj EXCEPT !.i = @ + 1]
    /\ UNCHANGED <<fsck, pr>>
    /\ UNCHANGED notCliVars

\* variant: nothing is refused
data_job_refused_none(op) == FALSE

\* the job that is refused before anything is opened
data_job_refused(op) == op = BCH_DATA_OP_SCRUB

\* from args_shift(optind) to the return of bchu_data()
cmd_data_job(open_ok) ==
    /\ dj.pc = "getopt"
    /\ dj.i > Len(dj.opts)
    /\ LET job == IF Len(dj.pos) >= 1 THEN dj.pos[1] ELSE ""
           op  == read_string_list(job, data_jobs)
       IN  CASE Len(dj.pos) = 0 -> dj_die("please specify which type of job")
             [] Len(dj.pos) > 0 /\ op < 0 -> dj_die("bad job type")
             [] Len(dj.pos) > 0 /\ op >= 0 /\ data_job_refused(op) ->
                  dj_die("scrub not implemented yet")
             [] OTHER ->
                  IF Len(dj.pos) > 2 THEN dj_die("too many arguments")
                  ELSE IF ~open_ok THEN dj_die("bcache_fs_open")
                  ELSE dj' = [dj EXCEPT !.pc = "done", !.op.op = op,
                                        !.submitted = Append(@, [dj.op EXCEPT !.op = op]),
                                        !.status = 0]
    /\ UNCHANGED <<fsck, pr>>
    /\ UNCHANGED notCliVars

\* the argument of the last -s or -e given, or the default
dj_wanted(letter, default) ==
    LET given == {i \in 1..Len(dj.opts) : dj.opts[i].opt = letter}
    IN  IF given = {} THEN default
        ELSE bpos_parse(dj.opts[CHOOSE i \in given : \A j \in given : j <= i].arg)

\* C18: a data job is submitted with the start position given by -s (POS_MIN
\* without -s) and the end position given by -e (POS_MAX without -e), each
\* whatever the other option.
C18_IndependentEndpoints ==
    \A k \in 1..Len(dj.submitted) :
        /\ dj.submitted[k].start_pos = dj_wanted("s", POS_MIN)
        /\ dj.submitted[k].end_pos = dj_wanted("e", POS_MAX)

dj_asks(job) == Len(dj.pos) >= 1 /\ dj.pos[1] = job

dj_help == \E i \in 1..Len(dj.opts) : dj.opts[i].opt = "h"

\* C19: a request for the scrub job ends in the error "scrub not implemented
\* yet" with a failure status, and no data operation is handed to the
\* filesystem for it.
C19_ScrubNotImplemented ==
    dj_asks("scrub") =>
        /\ dj.submitted = <<>>
        /\ (dj.pc = "done" /\ ~dj_help) =>
               (dj.err = "scrub not implemented yet" /\ dj.status # 0)

\* a scrub request, with a range, has been refused
C19_Witness ==
    /\ dj_asks("scrub")
    /\ Len(dj.pos) = 2
    /\ dj.pc = "done"
    /\ dj.err = "scrub not implemented yet"
    /\ \E i \in 1..Len(dj.opts) : dj.opts[i].opt = "s"

\* ------------------------------------------------------------------------
\* cmd_attr.c: cmd_setattr(), do_setattr(), propagate_recurse()
\*
\* pr = [pc, paths: the files given, i, val: the value given for the option,
\* inodes: inode -> [val: the option as the inode has it, set: the option is
\* set on the inode itself (bi_fields_set)], before: the inodes at the
\* start, stack: the calls of propagate_recurse, each [dir, left: entries
\* readdir() has not returned yet], errors: calls that failed and were
\* passed over, status, err].
\*
\* The tree: inode 1 is a directory, inodes 2..NInodes-1 hang below each
\* other, inode NInodes is a file in directory 1.

Inodes == 1..NInodes

inode_parent(x) == IF x = 1 THEN 0 ELSE IF x = NInodes THEN 1 ELSE x - 1

S_ISDIR(x) == x <= NInodes - 2

dir_entries(d) == {x \in Inodes : inode_parent(x) = d}

OptVals == {"none", "lz4"}

RECURSIVE is_ancestor(_, _)
is_ancestor(a, x) ==
    x # 0 /\ (inode_parent(x) = a \/ is_ancestor(a, inode_parent(x)))

pr_idle == [pc |-> "idle", paths |-> <<>>, i |-> 1, val |-> "none",
            inodes |-> [x \in Inodes |-> [val |-> "none", set |-> FALSE]],
            before |-> [x \in Inodes |-> [val |-> "none", set |-> FALSE]],
            stack |-> <<>>, errors |-> 0, status |-> 0, err |-> ""]

pr_die(msg) ==
    pr' = [pr EXCEPT !.pc = "done", !.status = 1, !.err = msg]

\* setxattr("bcachefs.<option>") as the filesystem serves it: the option is
\* set on the inode itself
xattr_set(inodes, x, v) == [inodes EXCEPT ![x] = [val |-> v, set |-> TRUE]]

\* BCHFS_IOC_REINHERIT_ATTRS as the filesystem serves it: an option the
\* entry has not set itself takes the directory's value; 1 if that changed
\* the entry, 0 if it did no work
reinherit_ret(inodes, d, x) ==
    IF ~inodes[x].set /\ inodes[x].val # inodes[d].val THEN 1 ELSE 0

reinherit_attrs(inodes, d, x) ==
    IF reinherit_ret(inodes, d, x) = 1
    THEN [inodes EXCEPT ![x].val = inodes[d].val]
    ELSE inodes

\* the return of do_setattr(): on to the next file, or the end of the loop
setattr_next(r) ==
    IF r.i + 1 > Len(r.paths)
    THEN [r EXCEPT !.i = @ + 1, !.pc = "done"]
    ELSE [r EXCEPT !.i = @ + 1, !.pc = "setattr"]

\* cmd_setattr() up to the loop over the files
cmd_setattr ==
    /\ pr.pc = "start"
    /\ IF Len(pr.paths) = 0
       THEN pr_die("Please supply one or more files")
       ELSE pr' = [pr EXCEPT !.pc = "setattr", !.i = 1]
    /\ UNCHANGED <<fsck, dj>>
    /\ UNCHANGED notCliVars

\* do_setattr() up to its call of propagate_recurse()
do_setattr(set_err, open_err) ==
    /\ pr.pc = "setattr"
    /\ pr.i <= Len(pr.paths)
    /\ LET path == pr.paths[pr.i]
           set  == [pr EXCEPT !.inodes = xattr_set(@, path, pr.val)]
       IN  IF set_err THEN pr_die("setxattr error")
           ELSE IF ~S_ISDIR(path) THEN pr' = setattr_next(set)
           ELSE IF open_err THEN pr_die("error opening")
           ELSE pr' = [set EXCEPT !.pc = "propagate",
                                  !.stack = <<[dir |-> path,
                                               left |-> dir_entries(path)]>>]
    /\ UNCHANGED <<fsck, dj>>
    /\ UNCHANGED notCliVars

\* variant: a changed directory is not entered
propagate_descends_never(ret, x) == FALSE

\* propagate_recurse() enters an entry that the ioctl changed and that is a
\* directory
propagate_descends(ret, x) == ret # 0 /\ S_ISDIR(x)

\* one pass of the readdir() loop of the innermost propagate_recurse()
propagate_recurse(x, ioctl_err, open_err) ==
    /\ pr.pc = "propagate"
    /\ LET n   == Len(pr.stack)
           d   == pr.stack[n].dir
           ret == reinherit_ret(pr.inodes, d, x)
           rd  == [pr EXCEPT !.stack[n].left = @ \ {x}]
       IN  /\ x \in pr.stack[n].left
           /\ IF ioctl_err
              THEN pr' = [rd EXCEPT !.errors = 1]
              ELSE LET done == [rd EXCEPT !.inodes = reinherit_attrs(@, d, x)]
                   IN  IF ~propagate_descends(ret, x) THEN pr' = done
                       ELSE IF open_err THEN pr' = [done EXCEPT !.errors = 1]
                       ELSE pr' = [done EXCEPT
                                     !.stack = Append(@, [dir |-> x,
                                                          left |-> dir_entries(x)])]
    /\ UNCHANGED <<fsck, dj>>
    /\ UNCHANGED notCliVars

\* readdir() returns NULL: the innermost propagate_recurse() returns
propagate_return(readdir_err) ==
    /\ pr.pc = "propagate"
    /\ LET n == Len(pr.stack)
       IN  /\ pr.stack[n].left = {}
           /\ IF readdir_err THEN pr_die("readdir error")
              ELSE IF n > 1
              THEN pr' = [pr EXCEPT !.stack = SubSeq(@, 1, n - 1)]
              ELSE pr' = setattr_next([pr EXCEPT !.stack = <<>>])
    /\ UNCHANGED <<fsck, dj>>
    /\ UNCHANGED notCliVars

pr_finished == pr.pc = "done" /\ pr.status = 0 /\ pr.errors = 0

pr_dirs_given == {pr.paths[k] : k \in 1..Len(pr.paths)}

PathSlots == 0..(NSlots - 1)
NoSlot == NSlots
Iters == 1..NIters
PathPositions == 1..MaxPos
U8_MAX == 255

\* enum btree_path_uptodate
BTREE_ITER == [UPTODATE |-> 0, NEED_RELOCK |-> 1, NEED_TRAVERSE |-> 2]

\* path->l[level].b: NULL, one of the BTREE_ITER_NO_NODE_* markers, or the
\* node of the path's btree at that level whose key ends at pos
NullNode == [k |-> "null", pos |-> 0]
NoNode == [k |-> "no_node", pos |-> 0]
TreeNode(pos) == [k |-> "node", pos |-> pos]

path_zero == [ref |-> 0, intent_ref |-> 0, btree |-> 0, cached |-> FALSE,
              pos |-> 0, level |-> 0, locks_want |-> 0,
              uptodate |-> BTREE_ITER.UPTODATE, should_be_locked |-> FALSE,
              preserve |-> FALSE, sorted_idx |-> U8_MAX, locked |-> Unlocked,
              l |-> [lv \in Levels |-> NullNode], stale |-> {}]

\* struct btree_iter: the path it holds a reference on, and BTREE_ITER_INTENT
NoIter == [path |-> NoSlot, intent |-> FALSE]

tx_idle == [pc |-> "idle", debug |-> FALSE, allocated |-> {}, sorted |-> <<>>,
            updates |-> <<>>, iters |-> [i \in Iters |-> NoIter],
            restarted |-> FALSE, in_traverse_all |-> FALSE,
            traverse_all_idx |-> U8_MAX, leaked |-> FALSE,
            op |-> "none", path |-> NoSlot, ret |-> "0",
            before |-> [locked |-> {}, updates |-> <<>>]]

\* trans->mem is a sequence of bytes, each zero or junk (written by a caller,
\* or never initialised); its length is trans->mem_bytes
km_idle == [mem |-> <<>>, mem_top |-> 0, op |-> "none", ret |-> "0", p |-> 0,
            size |-> 0, old_bytes |-> 0, fits |-> FALSE, realloced |-> FALSE]

PathIdle == tp = [q \in PathSlots |-> path_zero] /\ tx = tx_idle /\ km = km_idle

cmp_int(a, b) == IF a < b THEN -1 ELSE IF a > b THEN 1 ELSE 0

bool_int(b) == IF b THEN 1 ELSE 0

__btree_path_cmp(l, r_btree_id, r_cached, r_pos, r_level) ==
    IF cmp_int(l.btree, r_btree_id) # 0 THEN cmp_int(l.btree, r_btree_id)
    ELSE IF cmp_int(bool_int(l.cached), bool_int(r_cached)) # 0
         THEN cmp_int(bool_int(l.cached), bool_int(r_cached))
    ELSE IF cmp_int(l.pos, r_pos) # 0 THEN cmp_int(l.pos, r_pos)
    ELSE 0 - cmp_int(l.level, r_level)

btree_path_cmp(l, r) ==
    __btree_path_cmp(l, r.btree, r.cached, r.pos, r.level)

\* the operators below take and give the pair s = [tp, tx]: the path table
\* and the transaction; trans->sorted[i] is s.tx.sorted[i + 1]
prev_btree_path(s, path) ==
    IF s.tp[path].sorted_idx > 0
    THEN s.tx.sorted[s.tp[path].sorted_idx] ELSE NoSlot

next_btree_path(s, path) ==
    IF s.tp[path].sorted_idx + 1 < Len(s.tx.sorted)
    THEN s.tx.sorted[s.tp[path].sorted_idx + 2] ELSE NoSlot

array_insert_item(a, idx, v) ==
    SubSeq(a, 1, idx) \o <<v>> \o SubSeq(a, idx + 1, Len(a))

array_remove_item(a, idx) ==
    SubSeq(a, 1, idx) \o SubSeq(a, idx + 2, Len(a))

\* for (i = from; i < nr_sorted; i++) paths[sorted[i]].sorted_idx = i
sorted_renumber(paths_, sorted, from) ==
    [q \in PathSlots |->
        IF \E i \in from..(Len(sorted) - 1) : sorted[i + 1] = q
        THEN [paths_[q] EXCEPT !.sorted_idx =
                 CHOOSE i \in from..(Len(sorted) - 1) :
                    /\ sorted[i + 1] = q
                    /\ \A j \in from..(Len(sorted) - 1) :
                          sorted[j + 1] = q => j <= i]
        ELSE paths_[q]]

\* variant: the new path always goes to the head of the list
btree_path_list_add_head(s, pos, path) ==
    LET sorted == array_insert_item(s.tx.sorted, 0, path)
    IN  [tp |-> sorted_renumber([s.tp EXCEPT ![path].sorted_idx = 0],
                                sorted, 0),
         tx |-> [s.tx EXCEPT !.sorted = sorted]]

btree_path_list_add(s, pos, path) ==
    LET idx == IF pos # NoSlot THEN s.tp[pos].sorted_idx + 1 ELSE 0
        sorted == array_insert_item(s.tx.sorted, idx, path)
    IN  [tp |-> sorted_renumber([s.tp EXCEPT ![path].sorted_idx = idx],
                                sorted, idx),
         tx |-> [s.tx EXCEPT
                    !.sorted = sorted,
                    !.traverse_all_idx =
                        IF /\ s.tx.in_traverse_all
                           /\ @ # U8_MAX
                           /\ @ >= idx
                        THEN @ + 1 ELSE @]]

btree_path_list_remove(s, path) ==
    LET idx == s.tp[path].sorted_idx
        sorted == array_remove_item(s.tx.sorted, idx)
    IN  [tp |-> [sorted_renumber(s.tp, sorted, idx)
                    EXCEPT ![path].sorted_idx = U8_MAX],
         tx |-> [s.tx EXCEPT !.sorted = sorted]]

btree_path_swap(s, l, r) ==
    LET li == s.tp[r].sorted_idx
        ri == s.tp[l].sorted_idx
    IN  [tp |-> [s.tp EXCEPT ![l].sorted_idx = li, ![r].sorted_idx = ri],
         tx |-> [s.tx EXCEPT !.sorted =
                    [@ EXCEPT ![li + 1] = s.tx.sorted[ri + 1],
                              ![ri + 1] = s.tx.sorted[li + 1]]]]

RECURSIVE check_sort_before(_, _)
check_sort_before(s, path) ==
    LET n == prev_btree_path(s, path)
    IN  IF n # NoSlot /\ btree_path_cmp(s.tp[n], s.tp[path]) > 0
        THEN check_sort_before(btree_path_swap(s, n, path), path)
        ELSE s

RECURSIVE check_sort_after(_, _)
check_sort_after(s, path) ==
    LET n == next_btree_path(s, path)
    IN  IF n # NoSlot /\ btree_path_cmp(s.tp[path], s.tp[n]) > 0
        THEN check_sort_after(btree_path_swap(s, path, n), path)
        ELSE s

bch2_btree_path_check_sort(s, path, cmp) ==
    LET n == prev_btree_path(s, path)
    IN  IF cmp <= 0 /\ n # NoSlot /\ btree_path_cmp(s.tp[n], s.tp[path]) > 0
        THEN check_sort_before(s, path)
        ELSE IF cmp >= 0 THEN check_sort_after(s, path)
        ELSE s

\* __btree_path_get(), __btree_path_put()
__btree_path_get(s, path, intent) ==
    [s EXCEPT !.tp[path].ref = @ + 1,
              !.tp[path].intent_ref = @ + bool_int(intent)]

__btree_path_put(s, path, intent) ==
    [s EXCEPT !.tp[path].ref = @ - 1,
              !.tp[path].intent_ref = @ - bool_int(intent)]

btree_trans_restart(s) == [s EXCEPT !.tx.restarted = TRUE]

btree_path_set_dirty(s, path, u) ==
    [s EXCEPT !.tp[path].uptodate = IF @ > u THEN @ ELSE u]

btree_node_unlock(s, path, level) ==
    [s EXCEPT !.tp[path].locked[level] = "none"]

__bch2_btree_path_unlock(s, path) ==
    [btree_path_set_dirty(s, path, BTREE_ITER.NEED_RELOCK)
        EXCEPT !.tp[path].locked = Unlocked]

\* btree_path_node(): path->l[level].b, NULL at and above BTREE_MAX_DEPTH
btree_path_node(s, path, level) ==
    IF level \in Levels THEN s.tp[path].l[level] ELSE NullNode

is_btree_node(s, path, level) ==
    level \in Levels /\ s.tp[path].l[level].k = "node"

\* btree_lock_want()
btree_lock_want(path, level) ==
    IF level < path.level THEN "none"
    ELSE IF level < path.locks_want THEN "intent"
    ELSE IF level = path.level THEN "read"
    ELSE "none"

\* btree_node_lock_increment(): another path of the transaction holds the
\* same node with a lock at least as strong
path_lock_increment(s, path, level, want) ==
    \E q \in s.tx.allocated :
        /\ s.tp[q].btree = s.tp[path].btree
        /\ s.tp[q].cached = s.tp[path].cached
        /\ s.tp[q].l[level] = s.tp[path].l[level]
        /\ LockRank[s.tp[q].locked[level]] >= LockRank[want]

\* bch2_btree_node_relock(); ok: six_relock_type() succeeds, which it does
\* when no other thread wrote to the node or holds a conflicting lock.
\* Gives the new state in s and the result in ret
bch2_btree_node_relock(s, path, level, ok) ==
    LET want == __btree_lock_want(s.tp[path], level)
    IN  IF s.tp[path].locked[level] # "none" THEN [s |-> s, ret |-> TRUE]
        ELSE IF ~is_btree_node(s, path, level) THEN [s |-> s, ret |-> FALSE]
        ELSE IF \/ ok
                \/ /\ level \notin s.tp[path].stale
                   /\ path_lock_increment(s, path, level, want)
             THEN [s |-> [s EXCEPT !.tp[path].locked[level] = want],
                   ret |-> TRUE]
        ELSE [s |-> s, ret |-> FALSE]

\* bch2_btree_node_upgrade(); ok: six_lock_tryupgrade() or six_relock_type()
bch2_btree_node_upgrade(s, path, level, ok) ==
    LET want == btree_lock_want(s.tp[path], level)
    IN  IF ~is_btree_node(s, path, level) THEN [s |-> s, ret |-> FALSE]
        ELSE IF want = "none" THEN [s |-> s, ret |-> TRUE]
        ELSE IF want = "read"
             THEN bch2_btree_node_relock(s, path, level, ok)
        ELSE IF s.tp[path].locked[level] = "intent"
             THEN [s |-> s, ret |-> TRUE]
        ELSE IF \/ ok
                \/ /\ level \notin s.tp[path].stale
                   /\ path_lock_increment(s, path, level, "intent")
             THEN [s |-> [s EXCEPT !.tp[path].locked[level] = "intent"],
                   ret |-> TRUE]
        ELSE [s |-> s, ret |-> FALSE]

\* the do-while loop of btree_path_get_locks(); rl: level -> whether the six
\* lock of the node at that level can be taken again
RECURSIVE get_locks_loop(_, _, _, _, _, _)
get_locks_loop(s, path, upgrade, rl, l, fail_idx) ==
    IF btree_path_node(s, path, l).k = "null"
    THEN [s |-> s, fail_idx |-> fail_idx]
    ELSE LET next(r, f) ==
                 IF l + 1 < s.tp[path].locks_want
                 THEN get_locks_loop(r.s, path, upgrade, rl, l + 1, f)
                 ELSE [s |-> r.s, fail_idx |-> f]
             locked(r) == next(r, IF r.ret THEN fail_idx ELSE l)
         IN  locked(IF upgrade
                    THEN bch2_btree_node_upgrade(s, path, l, rl[l])
                    ELSE bch2_btree_node_relock(s, path, l, rl[l]))

\* variant: only the level that failed is unlocked
get_locks_failed_one_level(s, path, fail_idx) ==
    [btree_path_set_dirty(btree_node_unlock(s, path, fail_idx), path,
                          BTREE_ITER.NEED_TRAVERSE)
        EXCEPT !.tp[path].l = [lv \in Levels |->
                                  IF lv <= fail_idx THEN NoNode ELSE @[lv]]]

\* btree_path_get_locks(), if (fail_idx >= 0)
get_locks_failed(s, path, fail_idx) ==
    [btree_path_set_dirty(__bch2_btree_path_unlock(s, path), path,
                          BTREE_ITER.NEED_TRAVERSE)
        EXCEPT !.tp[path].l = [lv \in Levels |->
                                  IF lv <= fail_idx THEN NoNode ELSE @[lv]]]

btree_path_get_locks(s, path, upgrade, rl) ==
    LET failed(r) == IF r.fail_idx >= 0
                     THEN get_locks_failed(r.s, path, r.fail_idx)
                     ELSE r.s
        relocked(s1) == IF s1.tp[path].uptodate = BTREE_ITER.NEED_RELOCK
                        THEN [s1 EXCEPT !.tp[path].uptodate = BTREE_ITER.UPTODATE]
                        ELSE s1
        result(s2) ==
            [s |-> s2, ret |-> s2.tp[path].uptodate < BTREE_ITER.NEED_RELOCK]
    IN  result(relocked(failed(
            get_locks_loop(s, path, upgrade, rl, s.tp[path].level, -1))))

\* variant: a failed relock does not restart the transaction
bch2_btree_path_relock_no_restart(s, path, rl) ==
    btree_path_get_locks(s, path, FALSE, rl)

bch2_btree_path_relock(s, path, rl) ==
    LET restart(r) ==
            IF r.ret THEN r ELSE [s |-> btree_trans_restart(r.s), ret |-> FALSE]
    IN  restart(btree_path_get_locks(s, path, FALSE, rl))

\* the first key position of a node: the root reaches down to POS_MIN, a
\* leaf holds the one position it is named by
node_min_key(b) == IF b.pos = SPOS_MAX THEN 0 ELSE b.pos

btree_path_good_node(s, path, l, check_pos, ok) ==
    LET b == s.tp[path].l[l]
        good(r) ==
            [s |-> r.s,
             ret |-> /\ r.ret
                     /\ ~(check_pos < 0 /\ s.tp[path].pos < node_min_key(b))
                     /\ ~(check_pos > 0 /\ s.tp[path].pos > b.pos)]
    IN  good(IF is_btree_node(s, path, l)
             THEN bch2_btree_node_relock(s, path, l, ok)
             ELSE [s |-> s, ret |-> FALSE])

path_node_up(s, path, l) ==
    [btree_node_unlock(s, path, l) EXCEPT !.tp[path].l[l] = NoNode]

\* btree_path_up_until_good_node(), the first loop
RECURSIVE up_until_good_node(_, _, _, _, _)
up_until_good_node(s, path, l, check_pos, rl) ==
    IF btree_path_node(s, path, l).k = "null" THEN [s |-> s, l |-> l]
    ELSE LET up(g) ==
                 IF g.ret THEN [s |-> g.s, l |-> l]
                 ELSE up_until_good_node(path_node_up(g.s, path, l), path,
                                         l + 1, check_pos, rl)
         IN  up(btree_path_good_node(s, path, l, check_pos, rl[l]))

\* while (l <= i) { btree_node_unlock(); NO_NODE_UP; l++ }
RECURSIVE path_nodes_up(_, _, _, _)
path_nodes_up(s, path, l, i) ==
    IF l > i THEN s ELSE path_nodes_up(path_node_up(s, path, l), path, l + 1, i)

\* btree_path_up_until_good_node(), the loop that takes the intent locks
RECURSIVE up_intent_locks(_, _, _, _, _)
up_intent_locks(s, path, l, i, rl) ==
    IF ~(i < s.tp[path].locks_want /\ btree_path_node(s, path, i).k # "null")
    THEN [s |-> s, l |-> l]
    ELSE LET relocked(r) ==
                 IF r.ret THEN up_intent_locks(r.s, path, l, i + 1, rl)
                 ELSE up_intent_locks(path_nodes_up(r.s, path, l, i), path,
                                      i + 1, i + 1, rl)
         IN  relocked(bch2_btree_node_relock(s, path, i, rl[i]))

btree_path_up_until_good_node(s, path, check_pos, rl) ==
    LET intent(u) == up_intent_locks(u.s, path, u.l, u.l + 1, rl)
    IN  intent(up_until_good_node(s, path, s.tp[path].level, check_pos, rl))

\* what taking a node lock, reading a node or filling a key cache entry comes
\* to: the lock is free, another thread holds it, or the callee failed
TraverseOuts == {"ok", "contended", "-EINTR", "-EIO", "-ENOMEM"}

\* btree_node_lock() of the node of the path's btree at level that ends at
\* pos: the trylock, btree_node_lock_increment(), and when the lock is
\* contended __bch2_btree_node_lock(), which restarts the transaction rather
\* than block against the lock order
path_node_lock(s, path, pos, level, out) ==
    LET type == __btree_lock_want(s.tp[path], level)
        held == \E q \in s.tx.allocated :
                    /\ s.tp[q].btree = s.tp[path].btree
                    /\ s.tp[q].cached = s.tp[path].cached
                    /\ s.tp[q].l[level] = TreeNode(pos)
                    /\ LockRank[s.tp[q].locked[level]] >= LockRank[type]
        bad == {q \in s.tx.allocated :
                   deadlock_reason(s.tp[path], pos, level, type, s.tp[q]) # 0}
    IN  IF out = "contended" /\ ~held /\ bad # {}
        THEN [s |-> btree_trans_restart(s), ret |-> "-EINTR"]
        ELSE [s |-> [s EXCEPT !.tp[path].locked[level] = type,
                              !.tp[path].l[level] = TreeNode(pos),
                              !.tp[path].stale = @ \ {level}],
              ret |-> "0"]

\* btree_path_lock_root(); "1": the root is below the level wanted
btree_path_lock_root(s, path, depth_want, out) ==
    LET root == btree_root_level(s.tp[path].btree)
    IN  IF root < depth_want
        THEN [s |-> [s EXCEPT !.tp[path].level = depth_want,
                              !.tp[path].l = [lv \in Levels |->
                                    IF lv >= depth_want THEN NullNode
                                    ELSE @[lv]]],
              ret |-> "1"]
        ELSE LET locked(r) ==
                     IF r.ret # "0" THEN r
                     ELSE [s |-> [r.s EXCEPT !.tp[path].l = [lv \in Levels |->
                                    IF lv < root THEN NoNode
                                    ELSE IF lv = root THEN TreeNode(SPOS_MAX)
                                    ELSE NullNode]],
                           ret |-> "0"]
             IN  locked(path_node_lock([s EXCEPT !.tp[path].level = root],
                                       path, SPOS_MAX, root, out))

\* btree_path_down(): bch2_btree_node_get() of the child, then the read lock
\* on the parent is dropped
btree_path_down(s, path, out) ==
    LET level == s.tp[path].level - 1
        got(r) ==
            IF r.ret # "0" THEN r
            ELSE [s |-> [r.s EXCEPT
                            !.tp[path].locked[level + 1] =
                                IF @ = "read" THEN "none" ELSE @,
                            !.tp[path].level = level],
                  ret |-> "0"]
    IN  got(IF out \in {"-EINTR", "-EIO", "-ENOMEM"}
            THEN [s |-> IF out = "-EINTR" THEN btree_trans_restart(s) ELSE s,
                  ret |-> out]
            ELSE path_node_lock(s, path, s.tp[path].pos, level, out))

\* bch2_btree_path_traverse_cached(): the key cache entry at the path's
\* position is found or filled, and locked
bch2_btree_path_traverse_cached(s, path, out) ==
    LET filled(r) ==
            IF r.ret = "0"
            THEN [s |-> [r.s EXCEPT !.tp[path].uptodate = BTREE_ITER.UPTODATE],
                  ret |-> "0"]
            ELSE IF r.ret = "-EINTR" THEN r
            ELSE [s |-> [btree_node_unlock(r.s, path, 0)
                            EXCEPT !.tp[path].l[0] = NoNode],
                  ret |-> r.ret]
    IN  filled(IF out \in {"-EINTR", "-EIO", "-ENOMEM"}
               THEN [s |-> IF out = "-EINTR" THEN btree_trans_restart(s) ELSE s,
                     ret |-> out]
               ELSE path_node_lock(s, path, s.tp[path].pos, 0, out))

\* the while loop of btree_path_traverse_one(); outs: level -> what getting
\* the node of that level comes to
RECURSIVE path_walk_down(_, _, _, _)
path_walk_down(s, path, depth_want, outs) ==
    IF s.tp[path].level <= depth_want
    THEN [s |-> [s EXCEPT !.tp[path].uptodate = BTREE_ITER.UPTODATE],
          ret |-> "0"]
    ELSE LET level == s.tp[path].level
             step(r) ==
                 IF r.ret = "1" THEN [s |-> r.s, ret |-> "0"]
                 ELSE IF r.ret # "0"
                 THEN [s |-> [__bch2_btree_path_unlock(r.s, path) EXCEPT
                                !.tp[path].level = depth_want,
                                !.tp[path].l[depth_want] = NoNode],
                       ret |-> r.ret]
                 ELSE path_walk_down(r.s, path, depth_want, outs)
         IN  step(IF btree_path_node(s, path, level).k # "null"
                  THEN btree_path_down(s, path, outs[level - 1])
                  ELSE btree_path_lock_root(s, path, depth_want,
                           outs[btree_root_level(s.tp[path].btree)]))

\* variant: a path that should be locked is unlocked and walked again
btree_path_traverse_one_ignore_should_be_locked(s, path, rl, outs) ==
    IF s.tx.restarted THEN [s |-> s, ret |-> "-EINTR"]
    ELSE IF s.tp[path].cached
    THEN bch2_btree_path_traverse_cached(s, path, outs[0])
    ELSE LET down(u) == path_walk_down([u.s EXCEPT !.tp[path].level = u.l],
                                       path, s.tp[path].level, outs)
         IN  down(btree_path_up_until_good_node(s, path, 0, rl))

btree_path_traverse_one(s, path, rl, outs) ==
    IF s.tx.restarted THEN [s |-> s, ret |-> "-EINTR"]
    ELSE IF s.tp[path].should_be_locked
    THEN LET relocked(r) == [s |-> r.s, ret |-> IF r.ret THEN "0" ELSE "-EINTR"]
         IN  relocked(bch2_btree_path_relock(s, path, rl))
    ELSE IF s.tp[path].cached
    THEN bch2_btree_path_traverse_cached(s, path, outs[0])
    ELSE LET down(u) == path_walk_down([u.s EXCEPT !.tp[path].level = u.l],
                                       path, s.tp[path].level, outs)
         IN  down(btree_path_up_until_good_node(s, path, 0, rl))

\* path->l[level].lock_seq against the node's sequence number: the levels
\* of a path whose node another thread has written to, or holds locked,
\* since the path unlocked it; six_relock_type() fails on exactly these
path_rl(s, path) == [lv \in Levels |-> lv \notin s.tp[path].stale]

\* the first free slot: __ffs64(~trans->paths_allocated)
path_free_slot(s) ==
    CHOOSE i \in PathSlots \ s.tx.allocated :
        \A j \in PathSlots \ s.tx.allocated : i <= j

btree_path_alloc(s, pos) ==
    LET idx == path_free_slot(s)
    IN  btree_path_list_add(
            [tp |-> [s.tp EXCEPT ![idx].ref = 0, ![idx].intent_ref = 0,
                                 ![idx].locked = Unlocked],
             tx |-> [s.tx EXCEPT !.allocated = @ \cup {idx}]],
            pos, idx)

\* memcpy() of everything from path->pos on, and the lock counts go up
btree_path_copy(s, dst, src) ==
    bch2_btree_path_check_sort(
        [s EXCEPT !.tp[dst] = [s.tp[src] EXCEPT
                                  !.ref = s.tp[dst].ref,
                                  !.intent_ref = s.tp[dst].intent_ref,
                                  !.sorted_idx = s.tp[dst].sorted_idx]],
        dst, 0)

btree_path_clone(s, src, intent) ==
    LET new == path_free_slot(s)
    IN  __btree_path_get(btree_path_copy(btree_path_alloc(s, src), new, src),
                         new, intent)

\* gives the new state in s and the path to use in path
bch2_btree_path_make_mut(s, path, intent) ==
    LET clone == s.tp[path].ref > 1 \/ s.tp[path].preserve
        mut(s1, new) ==
            [s |-> [s1 EXCEPT !.tp[new].should_be_locked = FALSE], path |-> new]
        cloned(s1, new) == mut([s1 EXCEPT !.tp[new].preserve = FALSE], new)
    IN  IF clone
        THEN cloned(btree_path_clone(__btree_path_put(s, path, intent),
                                     path, intent),
                    path_free_slot(s))
        ELSE mut(s, path)

bch2_btree_path_set_pos(s, path, new_pos, intent) ==
    LET cmp == cmp_int(new_pos, s.tp[path].pos)
    IN  IF cmp = 0 THEN [s |-> s, path |-> path]
        ELSE
        LET good(u, q) ==
                [s |-> IF u.l # u.s.tp[q].level
                       THEN __bch2_btree_path_unlock(
                                btree_path_set_dirty(u.s, q,
                                    BTREE_ITER.NEED_TRAVERSE), q)
                       ELSE u.s,
                 path |-> q]
            sorted(s1, q) ==
                IF s1.tp[q].cached
                THEN [s |-> btree_path_set_dirty(
                                [btree_node_unlock(s1, q, 0)
                                    EXCEPT !.tp[q].l[0] = NoNode],
                                q, BTREE_ITER.NEED_TRAVERSE),
                      path |-> q]
                ELSE good(btree_path_up_until_good_node(s1, q, cmp,
                                                        path_rl(s1, q)), q)
            moved(m) ==
                sorted(bch2_btree_path_check_sort(
                           [m.s EXCEPT !.tp[m.path].pos = new_pos], m.path, cmp),
                       m.path)
        IN  moved(bch2_btree_path_make_mut(s, path, intent))

\* the loop of bch2_path_get() over the sorted list: the last path before
\* the first one that sorts after the path asked for
path_get_pos(s, btree_id, cached, pos, level) ==
    LET n == Len(s.tx.sorted)
        after == {i \in 1..n :
                    __btree_path_cmp(s.tp[s.tx.sorted[i]], btree_id, cached,
                                     pos, level) > 0}
        first == IF after = {} THEN n + 1
                 ELSE CHOOSE i \in after : \A j \in after : i <= j
    IN  IF first = 1 THEN NoSlot ELSE s.tx.sorted[first - 1]

path_get_reuses(s, btree_id, cached, pos, level) ==
    LET path_pos == path_get_pos(s, btree_id, cached, pos, level)
    IN  /\ path_pos # NoSlot
        /\ s.tp[path_pos].cached = cached
        /\ s.tp[path_pos].btree = btree_id
        /\ s.tp[path_pos].level = level

\* bch2_path_get(): gives the new state in s and the path in path
path_get(s, btree_id, pos, locks_want, level, cached, intent, nopreserve) ==
    LET init(s1, new) ==
            [s |-> [s1 EXCEPT !.tp[new] =
                       [@ EXCEPT
                           !.pos = pos, !.btree = btree_id,
                           !.cached = cached,
                           !.uptodate = BTREE_ITER.NEED_TRAVERSE,
                           !.should_be_locked = FALSE,
                           !.level = level,
                           !.locks_want = locks_want,
                           !.locked = Unlocked,
                           !.stale = {},
                           !.l = [lv \in Levels |-> NoNode]]],
             path |-> new]
        found(path_pos) ==
            IF path_get_reuses(s, btree_id, cached, pos, level)
            THEN bch2_btree_path_set_pos(
                     __btree_path_get(s, path_pos, intent), path_pos, pos,
                     intent)
            ELSE init(__btree_path_get(btree_path_alloc(s, path_pos),
                                       path_free_slot(s), intent),
                      path_free_slot(s))
        upgrade(s2, q, want) ==
            IF want > s2.tp[q].locks_want
            THEN [s |-> btree_path_get_locks(
                            [s2 EXCEPT !.tp[q].locks_want = want], q, TRUE,
                            path_rl(s2, q)).s,
                  path |-> q]
            ELSE [s |-> s2, path |-> q]
        preserved(s2, q) ==
            upgrade(s2, q, Min(IF s2.tp[q].intent_ref > 0
                               THEN Max(locks_want, level + 1) ELSE locks_want,
                               Cardinality(Levels)))
        got(g) ==
            preserved(IF nopreserve THEN g.s
                      ELSE [g.s EXCEPT !.tp[g.path].preserve = TRUE],
                      g.path)
    IN  got(found(path_get_pos(s, btree_id, cached, pos, level)))

\* whether bch2_path_get() or bch2_btree_path_set_pos() takes a new slot
set_pos_allocs(s, path, new_pos) ==
    new_pos # s.tp[path].pos /\ (s.tp[path].ref > 1 \/ s.tp[path].preserve)

same_node(s, q, path) ==
    /\ s.tp[q].level = s.tp[path].level
    /\ s.tp[q].l[s.tp[q].level] = s.tp[path].l[s.tp[path].level]
    /\ s.tp[q].l[s.tp[q].level].k = "node" =>
          (s.tp[q].btree = s.tp[path].btree /\ s.tp[q].cached = s.tp[path].cached)

have_path_at_pos(s, path) ==
    LET prev == prev_btree_path(s, path)
        next == next_btree_path(s, path)
    IN  IF prev # NoSlot /\ btree_path_cmp(s.tp[prev], s.tp[path]) = 0
        THEN prev
        ELSE IF next # NoSlot /\ btree_path_cmp(s.tp[next], s.tp[path]) = 0
        THEN next ELSE NoSlot

have_node_at_pos(s, path) ==
    LET prev == prev_btree_path(s, path)
        next == next_btree_path(s, path)
    IN  IF prev # NoSlot /\ same_node(s, prev, path) THEN prev
        ELSE IF next # NoSlot /\ same_node(s, next, path) THEN next
        ELSE NoSlot

__bch2_path_free(s, path) ==
    LET s1 == btree_path_list_remove(__bch2_btree_path_unlock(s, path), path)
    IN  [s1 EXCEPT !.tx.allocated = @ \ {path}]

bch2_path_put(s, path, intent) ==
    LET s1 == __btree_path_put(s, path, intent)
        at_pos == have_path_at_pos(s1, path)
        at_node == have_node_at_pos(s1, path)
        moved == s1.tp[path].preserve /\ at_pos # NoSlot
        dup == IF moved THEN at_pos
               ELSE IF ~s1.tp[path].preserve THEN at_node ELSE NoSlot
        s2 == IF moved
              THEN [s1 EXCEPT !.tp[at_pos].preserve = TRUE,
                              !.tp[path].preserve = FALSE]
              ELSE s1
    IN  IF s1.tp[path].ref # 0 THEN s1
        ELSE IF dup = NoSlot THEN s2
        ELSE IF /\ s2.tp[path].should_be_locked
                /\ s2.tp[dup].locked[s2.tp[path].level] = "none"
             THEN s2
        ELSE __bch2_path_free(
                 [s2 EXCEPT !.tp[dup].should_be_locked =
                               @ \/ s2.tp[path].should_be_locked],
                 path)

RECURSIVE upgrade_linked(_, _, _, _)
upgrade_linked(s, path, new_locks_want, idx) ==
    IF idx \notin PathSlots THEN s
    ELSE IF /\ idx \in s.tx.allocated
            /\ idx # path
            /\ s.tp[idx].cached = s.tp[path].cached
            /\ s.tp[idx].btree = s.tp[path].btree
            /\ s.tp[idx].locks_want < new_locks_want
    THEN LET want(s1) ==
                 upgrade_linked(
                     btree_path_get_locks(s1, idx, TRUE, path_rl(s1, idx)).s,
                     path, new_locks_want, idx + 1)
         IN  want([s EXCEPT !.tp[idx].locks_want = new_locks_want])
    ELSE upgrade_linked(s, path, new_locks_want, idx + 1)

__bch2_btree_path_upgrade(s, path, new_locks_want) ==
    LET linked(r) ==
            IF r.ret THEN r
            ELSE [s |-> IF ~s.tp[path].cached /\ ~s.tx.in_traverse_all
                        THEN upgrade_linked(r.s, path, new_locks_want, 0)
                        ELSE r.s,
                  ret |-> FALSE]
        want(s1) ==
            linked(btree_path_get_locks(s1, path, TRUE, path_rl(s1, path)))
    IN  want([s EXCEPT !.tp[path].locks_want = new_locks_want])

RECURSIVE trans_unlock_from(_, _)
trans_unlock_from(s, idx) ==
    IF idx \notin PathSlots THEN s
    ELSE trans_unlock_from(IF idx \in s.tx.allocated
                           THEN __bch2_btree_path_unlock(s, idx) ELSE s,
                           idx + 1)

\* variant: the first path stays locked
bch2_trans_unlock_skip_first(s) == trans_unlock_from(s, 1)

bch2_trans_unlock(s) == trans_unlock_from(s, 0)

RECURSIVE trans_relock_from(_, _)
trans_relock_from(s, idx) ==
    IF idx \notin PathSlots THEN [s |-> s, ret |-> TRUE]
    ELSE IF idx \in s.tx.allocated /\ s.tp[idx].should_be_locked
    THEN LET relocked(r) ==
                 IF r.ret THEN trans_relock_from(r.s, idx + 1) ELSE r
         IN  relocked(bch2_btree_path_relock(s, idx, path_rl(s, idx)))
    ELSE trans_relock_from(s, idx + 1)

bch2_trans_relock(s) ==
    IF s.tx.restarted THEN [s |-> s, ret |-> FALSE]
    ELSE trans_relock_from(s, 0)

\* what other threads do to the nodes the transaction has unlocked while it
\* is scheduled away: every lock sequence number it remembers goes stale
nodes_written(s) ==
    [s EXCEPT !.tp = [q \in PathSlots |->
        [s.tp[q] EXCEPT !.stale =
            {lv \in Levels : s.tp[q].l[lv].k = "node"
                             /\ s.tp[q].locked[lv] = "none"}]]]

Scheds == {"no", "yield", "written"}

\* bch2_trans_cond_resched(); sched: need_resched(), and whether the nodes
\* were written to meanwhile
bch2_trans_cond_resched(s, sched) ==
    IF sched = "no" THEN [s |-> s, ret |-> "0"]
    ELSE LET relocked(r) == [s |-> r.s, ret |-> IF r.ret THEN "0" ELSE "-EINTR"]
             unlocked(s1) ==
                 relocked(bch2_trans_relock(IF sched = "written"
                                            THEN nodes_written(s1) ELSE s1))
         IN  unlocked(bch2_trans_unlock(s))

\* bch2_btree_path_traverse()
path_traverse(s, path, outs, sched) ==
    IF s.tp[path].uptodate < BTREE_ITER.NEED_RELOCK
    THEN [s |-> s, ret |-> "0"]
    ELSE LET resched(c) ==
                 IF c.ret # "0" THEN c
                 ELSE btree_path_traverse_one(c.s, path, path_rl(c.s, path),
                                              outs)
         IN  resched(bch2_trans_cond_resched(s, sched))

\* what the variables hold after an operation: a slot that is not allocated
\* is never read before it is written, and a level whose node is locked or
\* gone has no sequence number to go stale
path_norm(path, allocated) ==
    IF ~allocated THEN path_zero
    ELSE [path EXCEPT !.stale = {lv \in @ : /\ path.l[lv].k = "node"
                                             /\ path.locked[lv] = "none"}]

PathState == [tp |-> tp, tx |-> tx]

PathCommitMem(s, op, path, ret, mem) ==
    /\ tp' = [q \in PathSlots |-> path_norm(s.tp[q], q \in s.tx.allocated)]
    /\ tx' = [s.tx EXCEPT !.op = op, !.path = path, !.ret = ret]
    /\ km' = mem
    /\ UNCHANGED notPathVars

PathCommit(s, op, path, ret) == PathCommitMem(s, op, path, ret, km)

PathPanic ==
    /\ tx' = [tx EXCEPT !.pc = "panic", !.op = "panic"]
    /\ UNCHANGED <<tp, km>>
    /\ UNCHANGED notPathVars

\* at most one level fails when a path is walked
OutsSet == {o \in [Levels -> TraverseOuts] :
               \A a, b \in Levels : (o[a] # "ok" /\ o[b] # "ok") => a = b}

\* bch2_trans_iter_init(): the iterator takes a path; a transaction that
\* has been restarted is begun again first, BUG_ON(trans->restarted)
bch2_path_get(iter, btree_id, pos, level, cached, intent, nopreserve) ==
    /\ tx.pc = "running"
    /\ ~tx.restarted
    /\ tx.iters[iter] = NoIter
    /\ cached => (btree_id_cached(btree_id) /\ level = 0)
    /\ LET s == PathState
           reuse == path_get_reuses(s, btree_id, cached, pos, level)
           path_pos == path_get_pos(s, btree_id, cached, pos, level)
           allocs == \/ ~reuse
                     \/ /\ pos # tp[path_pos].pos
                        /\ (tp[path_pos].ref >= 1 \/ tp[path_pos].preserve)
       IN  IF allocs /\ tx.allocated = PathSlots THEN PathPanic
           ELSE LET g == path_get(s, btree_id, pos, 0, level, cached, intent,
                                  nopreserve)
                IN  PathCommit([g.s EXCEPT !.tx.iters[iter] =
                                   [path |-> g.path, intent |-> intent]],
                               "path_get", g.path, "0")

\* __bch2_btree_iter_traverse()
__bch2_btree_iter_traverse(iter, outs, sched) ==
    /\ tx.pc = "running"
    /\ tx.iters[iter] # NoIter
    /\ LET path == tx.iters[iter].path
           r == path_traverse(PathState, path, outs, sched)
       IN  PathCommit(r.s, "traverse", path, r.ret)

\* bch2_btree_iter_traverse()
bch2_btree_iter_traverse(iter, new_pos, outs, sched) ==
    /\ tx.pc = "running"
    /\ ~tx.restarted
    /\ tx.iters[iter] # NoIter
    /\ LET i == tx.iters[iter]
       IN  IF set_pos_allocs(PathState, i.path, new_pos)
              /\ tx.allocated = PathSlots
           THEN PathPanic
           ELSE LET m == bch2_btree_path_set_pos(PathState, i.path, new_pos,
                                                 i.intent)
                    s1 == [m.s EXCEPT !.tx.iters[iter].path = m.path]
                    r == path_traverse(s1, m.path, outs, sched)
                IN  PathCommit(IF r.ret = "0"
                               THEN [r.s EXCEPT
                                       !.tp[m.path].should_be_locked = TRUE]
                               ELSE r.s,
                               "iter_traverse", m.path, r.ret)

bch2_trans_iter_exit(iter) ==
    /\ tx.pc = "running"
    /\ tx.iters[iter] # NoIter
    /\ LET i == tx.iters[iter]
           s == bch2_path_put(PathState, i.path, i.intent)
       IN  PathCommit([s EXCEPT !.tx.iters[iter] = NoIter], "iter_exit",
                      i.path, "0")

\* bch2_trans_update(): the update staged through an iterator takes an
\* intent reference on the iterator's path
bch2_trans_update(iter) ==
    /\ tx.pc = "running"
    /\ ~tx.restarted
    /\ tx.iters[iter] # NoIter
    /\ tx.iters[iter].intent
    /\ tp[tx.iters[iter].path].should_be_locked
    /\ Len(tx.updates) < MaxUpdates
    /\ LET path == tx.iters[iter].path
           s == __btree_path_get(PathState, path, TRUE)
       IN  PathCommit([s EXCEPT !.tx.updates = Append(@, path)], "update",
                      path, "0")

\* bch2_btree_path_upgrade() to new_locks_want
path_upgrade(iter, new_locks_want) ==
    /\ tx.pc = "running"
    /\ ~tx.restarted
    /\ tx.iters[iter] # NoIter
    /\ tp[tx.iters[iter].path].locks_want < new_locks_want
    /\ LET path == tx.iters[iter].path
           r == __bch2_btree_path_upgrade(PathState, path, new_locks_want)
       IN  PathCommit(r.s, "upgrade", path, IF r.ret THEN "0" ELSE "false")

\* bch2_trans_unlock() before the transaction blocks on something else, and
\* the other threads that run meanwhile
trans_unlock(written) ==
    /\ tx.pc = "running"
    /\ \E q \in tx.allocated : tp[q].locked # Unlocked
    /\ LET s == bch2_trans_unlock(PathState)
       IN  PathCommit(IF written THEN nodes_written(s) ELSE s, "unlock",
                      NoSlot, "0")

trans_relock ==
    /\ tx.pc = "running"
    /\ tx.op = "unlock"
    /\ LET r == bch2_trans_relock(PathState)
       IN  PathCommit(r.s, "relock", NoSlot, IF r.ret THEN "0" ELSE "-EINTR")

\* another thread writes to the node path q has at level lv, or takes a lock
\* on it that conflicts: it can when no path of the transaction holds the
\* node locked, and every path that remembers the node finds out at its next
\* relock
node_written(q, lv) ==
    /\ tx.pc \in {"running", "retry_all", "traverse_all"}
    /\ q \in tx.allocated
    /\ tp[q].l[lv].k = "node"
    /\ lv \notin tp[q].stale
    /\ LET same == {r \in tx.allocated : /\ tp[r].btree = tp[q].btree
                                         /\ tp[r].cached = tp[q].cached
                                         /\ tp[r].l[lv] = tp[q].l[lv]}
       IN  /\ \A r \in same : tp[r].locked[lv] = "none"
           /\ tp' = [r \in PathSlots |->
                        IF r \in same
                        THEN [tp[r] EXCEPT !.stale = @ \cup {lv}] ELSE tp[r]]
    /\ UNCHANGED <<tx, km>>
    /\ UNCHANGED notPathVars

RECURSIVE put_updates_from(_, _)
put_updates_from(s, i) ==
    IF i > Len(s.tx.updates) THEN s
    ELSE put_updates_from(__btree_path_put(s, s.tx.updates[i], TRUE), i + 1)

\* variant: the references of the staged updates are kept
trans_put_updates_none(s) == [s EXCEPT !.tx.updates = <<>>]

\* trans_for_each_update(trans, i) __btree_path_put(i->path, true);
\* trans->nr_updates = 0
trans_put_updates(s) == [put_updates_from(s, 1) EXCEPT !.tx.updates = <<>>]

\* variant: should_be_locked is left as it is
trans_begin_path_keep_locked(s, idx) ==
    [s EXCEPT !.tp[idx].preserve = IF s.tx.restarted THEN @ ELSE FALSE]

\* bch2_trans_begin(), the flags of one path
trans_begin_path(s, idx) ==
    [s EXCEPT !.tp[idx].should_be_locked = FALSE,
              !.tp[idx].preserve = IF s.tx.restarted THEN @ ELSE FALSE]

\* the loop of bch2_trans_begin() over the paths
RECURSIVE trans_begin_paths(_, _)
trans_begin_paths(s, idx) ==
    IF idx \notin PathSlots THEN s
    ELSE IF idx \notin s.tx.allocated THEN trans_begin_paths(s, idx + 1)
    ELSE LET freed(s1) ==
                 IF s1.tp[idx].ref = 0 /\ ~s1.tp[idx].preserve
                 THEN __bch2_path_free(s1, idx)
                 ELSE [s1 EXCEPT !.tp[idx].preserve = FALSE]
         IN  trans_begin_paths(freed(trans_begin_path(s, idx)), idx + 1)

\* bch2_trans_begin() up to its call of bch2_btree_path_traverse_all(), which
\* a restarted transaction makes
path_trans_begin(sched) ==
    /\ tx.pc = "running"
    /\ LET s1 == trans_begin_paths(trans_put_updates(PathState), 0)
           s2 == bch2_trans_cond_resched(s1, sched).s
           s3 == IF s2.tx.restarted
                 THEN [s2 EXCEPT !.tx.pc = "retry_all",
                                 !.tx.in_traverse_all = TRUE]
                 ELSE s2
       IN  PathCommitMem(s3, "begin", NoSlot, "0",
                         [km EXCEPT !.mem_top = 0, !.op = "begin"])

\* the upgrades bch2_btree_path_traverse_all() makes, from the end of the
\* sorted list to its head
RECURSIVE traverse_all_upgrade(_, _)
traverse_all_upgrade(s, i) ==
    IF i < 0 THEN s
    ELSE LET path1 == s.tx.sorted[i + 1]
             path2 == s.tx.sorted[i + 2]
         IN  traverse_all_upgrade(
                 IF /\ s.tp[path1].btree = s.tp[path2].btree
                    /\ s.tp[path1].locks_want < s.tp[path2].locks_want
                 THEN __bch2_btree_path_upgrade(s, path1,
                                                s.tp[path2].locks_want).s
                 ELSE IF /\ s.tp[path1].locks_want = 0
                         /\ s.tp[path2].locks_want # 0
                 THEN __bch2_btree_path_upgrade(s, path1, 1).s
                 ELSE s,
                 i - 1)

\* bch2_btree_path_traverse_all() from retry_all to the loop that walks the
\* paths again
traverse_all_retry ==
    /\ tx.pc = "retry_all"
    /\ LET s1 == [PathState EXCEPT
                     !.tx.restarted = FALSE,
                     !.tx.traverse_all_idx = U8_MAX,
                     !.tp = [q \in PathSlots |->
                                [@[q] EXCEPT !.should_be_locked = FALSE]]]
           s2 == bch2_trans_unlock(
                     traverse_all_upgrade(s1, Len(s1.tx.sorted) - 2))
       IN  PathCommit([s2 EXCEPT !.tx.traverse_all_idx = 0,
                                 !.tx.pc = "traverse_all"],
                      "retry_all", NoSlot, "0")

\* variant: a restart met while the paths are walked is passed on to the
\* caller
traverse_all_next_pc_no_retry(ret) == "traversed"

\* if (ret == -EINTR || ret == -ENOMEM) goto retry_all; if (ret) goto err
traverse_all_next_pc(ret) ==
    IF ret \in {"-EINTR", "-ENOMEM"} THEN "retry_all" ELSE "traversed"

\* one turn of the loop of bch2_btree_path_traverse_all() over the sorted
\* list, and what follows the loop when it is done
traverse_all_step(outs) ==
    /\ tx.pc = "traverse_all"
    /\ LET s == PathState
           idx == tx.traverse_all_idx
       IN  IF idx < Len(tx.sorted)
           THEN LET path == tx.sorted[idx + 1]
                IN  IF tp[path].uptodate # BTREE_ITER.UPTODATE
                    THEN LET r == btree_path_traverse_one(s, path,
                                      path_rl(s, path), outs)
                         IN  IF r.ret # "0"
                             THEN PathCommit(
                                      [r.s EXCEPT
                                          !.tx.pc = traverse_all_next_pc(r.ret),
                                          !.tx.in_traverse_all =
                                              traverse_all_next_pc(r.ret)
                                                  = "retry_all"],
                                      "traverse_all", path, r.ret)
                             ELSE IF r.s.tp[path].uptodate
                                        # BTREE_ITER.UPTODATE
                             THEN PathCommit([r.s EXCEPT !.tx.pc = "bug"],
                                             "traverse_all", path, "BUG")
                             ELSE PathCommit(r.s, "traverse_all_one", path,
                                             "0")
                    ELSE PathCommit([s EXCEPT !.tx.traverse_all_idx = @ + 1],
                                    "traverse_all_one", path, "0")
           ELSE IF \E q \in tx.allocated :
                      tp[q].uptodate >= BTREE_ITER.NEED_TRAVERSE
           THEN PathCommit([s EXCEPT !.tx.pc = "bug"], "traverse_all",
                           NoSlot, "BUG")
           ELSE PathCommit([s EXCEPT !.tx.pc = "traversed",
                                     !.tx.in_traverse_all = FALSE],
                           "traverse_all", NoSlot, "0")

\* bch2_trans_begin() after bch2_btree_path_traverse_all() has returned
path_trans_begin_done ==
    /\ tx.pc = "traversed"
    /\ PathCommit([PathState EXCEPT !.tx.pc = "running",
                                    !.tx.restarted = FALSE],
                  "begin", NoSlot, "0")

\* check_btree_paths_leaked(), whose body is compiled only with
\* CONFIG_BCACHEFS_DEBUG
check_btree_paths_leaked(s) ==
    s.tx.debug /\ \E q \in s.tx.allocated : s.tp[q].ref # 0

\* bch2_trans_exit()
path_trans_exit ==
    /\ tx.pc = "running"
    /\ LET s == trans_put_updates(bch2_trans_unlock(PathState))
       IN  PathCommit([s EXCEPT
                          !.tx.pc = "exited",
                          !.tx.leaked = check_btree_paths_leaked(s),
                          !.tx.before =
                              [locked |-> {q \in tx.allocated :
                                              tp[q].locked # Unlocked},
                               updates |-> tx.updates]],
                      "exit", NoSlot, "0")

PathInit ==
    /\ tp = [q \in PathSlots |-> path_zero]
    /\ \E debug \in BOOLEAN :
          tx = [tx_idle EXCEPT !.pc = "running", !.debug = debug]
    /\ km = km_idle

\* the iterators of the transaction whose path table is followed: the first
\* is initialised with BTREE_ITER_INTENT, the second without it and on the
\* key cache as well
PathGets ==
    {g \in [iter : Iters, btree : Btrees, pos : PathPositions, level : Levels,
            cached : BOOLEAN, nopreserve : BOOLEAN] :
        /\ g.cached => (g.iter = 2 /\ g.level = 0)
        /\ g.iter = 1 => (~g.nopreserve /\ g.level = 0 /\ g.btree = 1)
        /\ g.btree = 2 => (g.level = 0 /\ g.pos = 1)}

AllOk == [lv \in Levels |-> "ok"]

PathNext ==
    \/ \E g \in PathGets :
          bch2_path_get(g.iter, g.btree, g.pos, g.level, g.cached, g.iter = 1,
                        g.nopreserve)
    \/ \E iter \in Iters, pos \in PathPositions :
          bch2_btree_iter_traverse(iter, pos, AllOk, "no")
    \/ \E iter \in Iters : bch2_trans_iter_exit(iter)
    \/ \E iter \in Iters : bch2_trans_update(iter)
    \/ path_trans_begin("no")
    \/ path_trans_exit

\* ------------------------------------------------------------------------
\* Properties of the path table
\* ------------------------------------------------------------------------
\* the references iterators hold on path q, all of them and the intent ones
iter_refs(q) == Cardinality({i \in Iters : tx.iters[i].path = q})

iter_intent_refs(q) ==
    Cardinality({i \in Iters : tx.iters[i].path = q /\ tx.iters[i].intent})

\* C24 as stated: when the transaction has exited, no path holds a node
\* lock, and every path reference has been dropped or the leak was reported.
C24_ExitReleasesOrReports ==
    tx.pc = "exited" =>
        \A q \in tx.allocated :
            /\ tp[q].locked = Unlocked
            /\ tp[q].ref = 0 \/ tx.leaked

\* C24: when the transaction has exited, no path holds a node lock and no
\* staged update holds a reference: the references left are those of the
\* iterators that were not exited, and they are reported as a leak exactly
\* in a build with CONFIG_BCACHEFS_DEBUG.
C24_ExitReleases ==
    tx.pc = "exited" =>
        /\ tx.updates = <<>>
        /\ \A q \in tx.allocated :
              /\ tp[q].locked = Unlocked
              /\ tp[q].ref = iter_refs(q)
              /\ tp[q].intent_ref = iter_intent_refs(q)
        /\ tx.leaked <=> (tx.debug /\ \E q \in tx.allocated : tp[q].ref # 0)

C24_Witness ==
    /\ tx.pc = "exited"
    /\ tx.before.locked # {}
    /\ tx.before.updates # <<>>
    /\ \E q \in tx.allocated : tp[q].ref # 0
    /\ tx.leaked

\* the step is bch2_trans_iter_exit() of iterator i, which puts its path
path_put_step(i) ==
    /\ tx.pc = "running"
    /\ tx.iters[i] # NoIter
    /\ tx'.iters[i] = NoIter
    /\ tx'.op = "iter_exit"

\* path q stays when p goes: it is at the position of p, or its level is
\* that of p and its node, where on_node says what counts as one, is the
\* node of p
path_put_dup(q, p, on_node) ==
    \/ btree_path_cmp(tp[q], tp[p]) = 0
    \/ /\ tp[q].level = tp[p].level
       /\ tp[q].l[tp[q].level] = tp[p].l[tp[p].level]
       /\ tp[p].l[tp[p].level].k \in on_node
       /\ tp[p].l[tp[p].level].k = "node" =>
             (tp[q].btree = tp[p].btree /\ tp[q].cached = tp[p].cached)

path_put_frees(on_node) ==
    \A i \in Iters :
        path_put_step(i) /\ tx.iters[i].path \notin tx'.allocated =>
            /\ tp[tx.iters[i].path].ref = 1
            /\ \E q \in tx'.allocated :
                  /\ path_put_dup(q, tx.iters[i].path, on_node)
                  /\ tp[tx.iters[i].path].should_be_locked =>
                        /\ tp[q].locked[tp[tx.iters[i].path].level] # "none"
                        /\ tp'[q].should_be_locked

\* C35: bch2_path_put frees a path only when its reference count has dropped
\* to zero and another path at the same position, or on the same node,
\* remains, and it never frees a should_be_locked path in favour of a
\* duplicate that does not hold the lock at the path's level.
C35_PutFreesDuplicate == [][path_put_frees({"node"})]_vars

\* C26: the sorted list of the transaction holds exactly the allocated
\* paths, each once, in non-decreasing (btree, cached, position, -level)
\* order, and the sorted_idx of each is its index in the list.
C26_SortedList ==
    /\ Len(tx.sorted) = Cardinality(tx.allocated)
    /\ {tx.sorted[i] : i \in 1..Len(tx.sorted)} = tx.allocated
    /\ \A i \in 1..Len(tx.sorted) : tp[tx.sorted[i]].sorted_idx = i - 1
    /\ \A i, j \in 1..Len(tx.sorted) :
          i < j => btree_path_cmp(tp[tx.sorted[i]], tp[tx.sorted[j]]) <= 0

C26_Witness ==
    /\ tx.op = "iter_traverse"
    /\ tx.allocated = PathSlots
    /\ tx.path = 1
    /\ tx.sorted[1] = 1
    /\ btree_path_cmp(tp[tx.sorted[1]], tp[tx.sorted[2]]) < 0
    /\ tp[0].ref > 0

\* ------------------------------------------------------------------------
\* btree_iter.c: the scratch arena of a transaction
\* ------------------------------------------------------------------------
RECURSIVE pow_of_two_from(_, _)
pow_of_two_from(p, n) == IF p >= n THEN p ELSE pow_of_two_from(2 * p, n)

roundup_pow_of_two(n) == pow_of_two_from(1, n)

junk_bytes(n) == [i \in 1..n |-> "junk"]

\* the sizes asked for: small ones, and one beyond BTREE_TRANS_MEM_MAX
KmSizes == {1, 2, MemMax + 1}

\* variant: the memory is handed out as it is
kmalloc_memset_none(mem, p, size) == mem

\* memset(p, 0, size)
kmalloc_memset(mem, p, size) ==
    [i \in 1..Len(mem) |-> IF i > p /\ i <= p + size THEN "zero" ELSE mem[i]]

\* variant: every reallocation restarts the transaction
kmalloc_restarts_always(old_bytes) == TRUE

\* if (old_bytes) { btree_trans_restart(trans); return ERR_PTR(-EINTR); }
kmalloc_restarts(old_bytes) == old_bytes # 0

\* bch2_trans_kmalloc(); realloc_ok: krealloc() finds the memory.  The arena
\* of the model stops growing at twice BTREE_TRANS_MEM_MAX
bch2_trans_kmalloc(size, realloc_ok) ==
    /\ tx.pc = "running"
    /\ km.mem_top + size <= 2 * MemMax
    /\ LET new_top == km.mem_top + size
           old_bytes == Len(km.mem)
           fits == new_top <= old_bytes
           rounded == roundup_pow_of_two(new_top)
           pool == ~fits /\ ~realloc_ok /\ rounded <= MemMax
           enomem == ~fits /\ ~realloc_ok /\ rounded > MemMax
           new_bytes == IF pool THEN MemMax ELSE rounded
           new_mem == IF fits THEN km.mem
                      ELSE IF pool THEN junk_bytes(new_bytes)
                      ELSE km.mem \o junk_bytes(new_bytes - old_bytes)
           restart == ~fits /\ ~enomem /\ kmalloc_restarts(old_bytes)
           call == [km EXCEPT !.op = "kmalloc", !.size = size,
                              !.old_bytes = old_bytes, !.fits = fits,
                              !.realloced = ~fits /\ ~enomem]
       IN  /\ km' = IF enomem THEN [call EXCEPT !.ret = "-ENOMEM"]
                    ELSE IF restart
                    THEN [call EXCEPT !.ret = "-EINTR", !.mem = new_mem]
                    ELSE [call EXCEPT
                            !.ret = "p", !.p = km.mem_top,
                            !.mem_top = new_top,
                            !.mem = kmalloc_memset(new_mem, km.mem_top, size)]
           /\ tx' = IF restart THEN [tx EXCEPT !.restarted = TRUE] ELSE tx
    /\ UNCHANGED tp
    /\ UNCHANGED notPathVars

\* the caller fills the memory it was given
kmalloc_fill ==
    /\ tx.pc = "running"
    /\ km.op = "kmalloc"
    /\ km.ret = "p"
    /\ km' = [km EXCEPT !.op = "filled",
                        !.mem = [i \in 1..Len(@) |->
                                    IF i > km.p /\ i <= km.p + km.size
                                    THEN "junk" ELSE @[i]]]
    /\ UNCHANGED <<tp, tx>>
    /\ UNCHANGED notPathVars

\* the memory the last bch2_trans_kmalloc() returned
kmalloc_region == {i \in 1..Len(km.mem) : i > km.p /\ i <= km.p + km.size}

\* C25 as stated: an allocation restarts the transaction exactly when the
\* arena had to be reallocated while it owned a buffer, and one that fits, or
\* is the first into an empty arena, returns zero-filled memory of the size
\* asked for without a restart.
C25_RestartIffRealloc ==
    km.op = "kmalloc" =>
        /\ km.ret = "-EINTR" <=> (~km.fits /\ km.old_bytes # 0)
        /\ (km.fits \/ km.old_bytes = 0) =>
              /\ km.ret = "p"
              /\ Cardinality(kmalloc_region) = km.size
              /\ \A i \in kmalloc_region : km.mem[i] = "zero"

\* C25: an allocation restarts the transaction, and returns -EINTR, exactly
\* when the arena was reallocated while it owned a buffer; it returns
\* -ENOMEM, without a restart, exactly when the arena had to grow beyond
\* BTREE_TRANS_MEM_MAX and krealloc() failed; every other allocation returns
\* zero-filled memory of the size asked for, inside the arena and above what
\* was handed out before.
C25_RestartIffRealloced ==
    km.op = "kmalloc" =>
        /\ km.ret = "-EINTR" <=> (km.realloced /\ km.old_bytes # 0)
        /\ km.ret = "-EINTR" => tx.restarted
        /\ km.ret = "-ENOMEM" <=>
              (~km.fits /\ ~km.realloced
                  /\ roundup_pow_of_two(km.mem_top + km.size) > MemMax)
        /\ km.ret \in {"p", "-EINTR", "-ENOMEM"}
        /\ km.ret = "p" =>
              /\ Cardinality(kmalloc_region) = km.size
              /\ km.mem_top = km.p + km.size
              /\ \A i \in kmalloc_region : km.mem[i] = "zero"

C25_Witness ==
    /\ km.op = "kmalloc"
    /\ km.ret = "-EINTR"
    /\ km.old_bytes # 0
    /\ tx.restarted
    /\ km.mem_top # 0

KmallocInit ==
    /\ tp = [q \in PathSlots |-> path_zero]
    /\ tx = [tx_idle EXCEPT !.pc = "running"]
    /\ \E expected_mem_bytes \in 0..2 :
          km = [km_idle EXCEPT !.mem =
                   IF expected_mem_bytes = 0 THEN <<>>
                   ELSE junk_bytes(roundup_pow_of_two(expected_mem_bytes))]

KmallocNext ==
    \/ \E size \in KmSizes, realloc_ok \in BOOLEAN :
          bch2_trans_kmalloc(size, realloc_ok)
    \/ kmalloc_fill
    \/ path_trans_begin("no")
    \/ traverse_all_retry
    \/ traverse_all_step(AllOk)
    \/ path_trans_begin_done

\* ------------------------------------------------------------------------
\* btree_iter.c: walking and relocking the paths
\* ------------------------------------------------------------------------
\* the iterators of the transaction whose locks are followed, all on the
\* first btree: one with BTREE_ITER_INTENT on a leaf, the others without on
\* any node the btree has from its leaves to its root
TraverseGets ==
    {g \in [iter : Iters, btree : {1}, pos : {1}, level : Levels] :
        /\ g.iter = 1 => g.level = 0
        /\ g.level <= btree_root_level(g.btree)}

TraverseInit ==
    /\ tp = [q \in PathSlots |-> path_zero]
    /\ tx = [tx_idle EXCEPT !.pc = "running"]
    /\ km = km_idle

TraverseNext ==
    \/ \E g \in TraverseGets :
          bch2_path_get(g.iter, g.btree, g.pos, g.level, FALSE, g.iter = 1,
                        FALSE)
    \/ \E iter \in Iters, outs \in OutsSet :
          bch2_btree_iter_traverse(iter, tp[tx.iters[iter].path].pos, outs,
                                   "no")
    \/ \E iter \in Iters, sched \in Scheds \ {"no"} :
          __bch2_btree_iter_traverse(iter, AllOk, sched)
    \/ \E iter \in Iters, want \in 1..Cardinality(Levels) :
          path_upgrade(iter, want)
    \/ trans_unlock(FALSE)
    \/ trans_relock
    \/ \E q \in PathSlots, lv \in Levels : node_written(q, lv)
    \/ \E sched \in Scheds : path_trans_begin(sched)
    \/ traverse_all_retry
    \/ \E outs \in OutsSet : traverse_all_step(outs)
    \/ path_trans_begin_done

\* a step of another thread, which leaves the transaction as it is
node_written_step == \E q \in PathSlots, lv \in Levels : node_written(q, lv)

\* C27: when bch2_btree_path_traverse_all() returns success no path of the
\* transaction needs traversal, trans->restarted is clear and
\* in_traverse_all is false; a walk of a path that ends in -EINTR or -ENOMEM
\* is not returned but sends the whole pass back to retry_all
C27_TraverseAllSuccess ==
    /\ (tx.pc = "traversed" /\ tx.ret = "0") =>
          /\ \A q \in tx.allocated :
                tp[q].uptodate < BTREE_ITER.NEED_TRAVERSE
          /\ ~tx.restarted
          /\ ~tx.in_traverse_all
    /\ (tx.op = "traverse_all" /\ tx.ret \in {"-EINTR", "-ENOMEM"}) =>
          /\ tx.pc = "retry_all"
          /\ tx.in_traverse_all

C27_Witness ==
    /\ tx.pc = "traversed"
    /\ tx.ret = "0"
    /\ tx.allocated = PathSlots
    /\ \A q \in PathSlots : tp[q].uptodate = BTREE_ITER.UPTODATE
    /\ \E q \in PathSlots : nodes_locked(tp[q]) = Levels

\* C28: btree_path_traverse_one() returns -EINTR exactly when the
\* transaction is marked restarted as it returns
C28_EintrIffRestarted ==
    (tx.op \in {"iter_traverse", "traverse_all", "traverse_all_one"}
        /\ tx.path # NoSlot /\ tx.ret # "BUG") =>
        (tx.ret = "-EINTR" <=> tx.restarted)

C28_Witness ==
    /\ tx.op = "iter_traverse"
    /\ tx.ret = "-EINTR"
    /\ tx.restarted
    /\ tp[tx.path].should_be_locked

\* the path holds the nodes it held, locked again under the sequence
\* numbers it remembered
path_locks_kept(q) ==
    /\ tp'[q].l = tp[q].l
    /\ tp'[q].level = tp[q].level
    /\ \A lv \in Levels :
          (/\ lv >= tp[q].level
           /\ lv = tp[q].level \/ lv < tp[q].locks_want
           /\ tp[q].l[lv].k = "node") => tp'[q].locked[lv] # "none"
    /\ tp[q].stale \cap nodes_locked(tp'[q]) = {}

\* C29: traversing or relocking a path that is marked should_be_locked
\* either takes the locks it held again, on the same nodes, or marks the
\* transaction restarted and returns failure; it is never unlocked and
\* walked again without a restart
C29_ShouldBeLocked ==
    [][(tx'.op \in {"iter_traverse", "traverse", "relock"}
           /\ ~node_written_step) =>
           \A q \in tx.allocated :
               (/\ tp[q].should_be_locked
                /\ tx'.op # "relock" => tx'.path = q) =>
                   \/ path_locks_kept(q)
                   \/ tx'.restarted /\ tx'.ret = "-EINTR"]_vars

C29_Witness ==
    /\ tx.op = "relock"
    /\ tx.ret = "0"
    /\ ~tx.restarted
    /\ \E q \in tx.allocated :
          tp[q].should_be_locked /\ nodes_locked(tp[q]) = Levels

\* C30: when a level of a path cannot be relocked or upgraded, the path is
\* left with no node locked at all and marked BTREE_ITER_NEED_TRAVERSE
C30_FailedGetLocksUnlocks ==
    [][(tx'.op \in {"upgrade", "relock"} /\ ~node_written_step) =>
           \A q \in tx.allocated :
               (\E lv \in Levels : tp[q].l[lv] # NoNode
                                   /\ tp'[q].l[lv] = NoNode) =>
                   /\ tp'[q].locked = Unlocked
                   /\ tp'[q].uptodate = BTREE_ITER.NEED_TRAVERSE]_vars

C30_Witness ==
    /\ tx.op = "upgrade"
    /\ tx.ret = "false"
    /\ tp[tx.path].should_be_locked
    /\ tp[tx.path].level = 0
    /\ tp[tx.path].locks_want = 2
    /\ \A lv \in Levels : tp[tx.path].l[lv] = NoNode
    /\ tp[tx.path].locked = Unlocked
    /\ tp[tx.path].uptodate = BTREE_ITER.NEED_TRAVERSE

fsck_idle == [pc |-> "idle", args |-> <<>>, devs |-> <<>>, i |-> 1, ret |-> 0,
              status |-> 0, fix_errors |-> "FSCK_OPT_ASK", flags |-> {}]

CliIdle ==
    /\ fsck = fsck_idle
    /\ dj = dj_idle
    /\ pr = pr_idle

LockInit ==
    /\ paths = [t \in Trans |-> [p \in PathIdx |-> NoPath]]
    /\ trans = [t \in Trans |->
                    [restarted |-> FALSE, reason |-> 0, wait |-> NoWait]]
    /\ wlocked = {}

AllocNext ==
    \/ \E b \in FgBuckets : bch2_bucket_alloc(b)
    \/ \E b \in FgBuckets : bch2_open_bucket_put(b)
    \/ \E b \in FgBuckets, t \in {"user", "btree", "cached"} :
            bch2_trans_mark_pointer_add(b, t)
    \/ \E b \in FgBuckets, k \in {"dirty", "cached"} :
            bch2_trans_mark_pointer_drop(b, k)
    \/ \E b \in FgBuckets : bch2_bucket_io_time_reset(b)
    \/ bch2_increment_clock
    \/ bch2_journal_write
    \/ bch2_do_discards
    \/ bch2_do_discards_work
    \/ bch2_clear_need_discard
    \/ \E r \in BOOLEAN : clear_need_discard_relock(r)
    \/ bch2_do_invalidates
    \/ invalidate_one_bucket
    \/ bch2_do_invalidates_work

\* cached data written to every bucket of the device, read and invalidated
InvalidateNext ==
    \/ \E b \in Buckets : bch2_bucket_alloc(b)
    \/ \E b \in Buckets : bch2_open_bucket_put(b)
    \/ \E b \in Buckets : bch2_trans_mark_pointer_add(b, "cached")
    \/ \E b \in Buckets : bch2_bucket_io_time_reset(b)
    \/ bch2_increment_clock
    \/ bch2_do_invalidates
    \/ invalidate_one_bucket
    \/ bch2_do_invalidates_work

RestartNext ==
    \/ \E r1 \in IterRets, r2 \in IterRets : bch2_dev_usrdata_drop(r1, r2)
    \/ bch2_dev_metadata_drop_entry
    \/ \E r1 \in IterRets, r2 \in IterRets : bch2_dev_metadata_drop(r1, r2)
    \/ \E r1 \in IterRets, r2 \in IterRets : bcachefs_fuse_setattr(r1, r2)

LockNext ==
    \/ \E t \in Trans, b \in Btrees, c \in BOOLEAN, pos \in 1..MaxPos,
          w \in 0..2, d \in BOOLEAN :
            bch2_btree_path_traverse(t, b, c, pos, w, d)
    \/ \E t \in Trans, p \in PathIdx : bch2_btree_node_lock_write(t, p)
    \/ \E t \in Trans, d \in BOOLEAN : six_lock_type(t, d)
    \/ \E t \in Trans : bch2_trans_unlock_write(t)
    \/ \E t \in Trans : bch2_trans_begin(t)
    \/ \E t \in Trans : bch2_trans_exit(t)

\* ------------------------------------------------------------------------
\* bch2_dev_allocator_remove(), bch2_dev_allocator_add()
\*
\* ar = [pc: where bch2_dev_allocator_remove() is, ca: the device it takes
\* out, rw_devs: the devices of each allocation group, ob: the open buckets
\* (pin: references held, owner: who holds the allocator's reference, a
\* write point, the btree reserve cache, the device's partial list or the
\* loop that empties it; the other references belong to writes in flight),
\* waited: the call found a bucket to wait for].
\* ------------------------------------------------------------------------
RmDevs == {0, 1}

\* the allocation groups, ARRAY_SIZE(c->rw_devs)
RmGroups == {1, 2}

RmObs == 1..NObs

ob_free == [valid |-> FALSE, on_partial_list |-> FALSE, dev |-> 0, pin |-> 0,
            owner |-> "none"]

ar_idle == [pc |-> "idle", ca |-> 0, rw_devs |-> [g \in RmGroups |-> {}],
            ob |-> [o \in RmObs |-> ob_free], cur |-> 0, waited |-> FALSE]

\* bch2_open_bucket_put(): the bucket is closed when the last reference goes
open_bucket_put(o) ==
    IF o.pin = 1 THEN ob_free ELSE [o EXCEPT !.pin = @ - 1]

\* a holder other than a write gives its reference up
open_bucket_drop(o) == open_bucket_put([o EXCEPT !.owner = "none"])

\* bch2_writepoint_stop(): the write point lets go of its buckets on ca
bch2_writepoint_stop(obs, ca) ==
    [o \in RmObs |-> IF obs[o].owner = "wp" /\ obs[o].dev = ca
                     THEN open_bucket_drop(obs[o]) ELSE obs[o]]

\* variant: nothing is waited for
bch2_dev_has_open_write_point_not_waited(obs, ca) == FALSE

bch2_dev_has_open_write_point(obs, ca) ==
    \E o \in RmObs :
        obs[o].valid /\ ~obs[o].on_partial_list /\ obs[o].dev = ca

\* bch2_dev_allocator_remove(): the device leaves every allocation group
dev_allocator_remove_groups(d) ==
    /\ ar.pc \in {"idle", "done"}
    /\ ar' = [ar EXCEPT !.pc = "writepoints", !.ca = d, !.waited = FALSE,
                        !.rw_devs = [g \in RmGroups |-> ar.rw_devs[g] \ {d}]]
    /\ UNCHANGED notRemoveVars

\* ... the write points are stopped
dev_allocator_remove_writepoints ==
    /\ ar.pc = "writepoints"
    /\ ar' = [ar EXCEPT !.pc = "reserve",
                        !.ob = bch2_writepoint_stop(ar.ob, ar.ca)]
    /\ UNCHANGED notRemoveVars

\* ... the btree reserve cache is emptied, whatever device its buckets are on
dev_allocator_remove_reserve ==
    /\ ar.pc = "reserve"
    /\ ar' = [ar EXCEPT !.pc = "partial",
                        !.ob = [o \in RmObs |->
                                   IF ar.ob[o].owner = "reserve"
                                   THEN open_bucket_drop(ar.ob[o])
                                   ELSE ar.ob[o]]]
    /\ UNCHANGED notRemoveVars

\* ... a bucket is taken off the device's partial list under freelist_lock,
\* or the list is empty and the waiters are woken
dev_allocator_remove_partial ==
    /\ ar.pc = "partial"
    /\ IF \E o \in RmObs : ar.ob[o].on_partial_list /\ ar.ob[o].dev = ar.ca
       THEN \E o \in RmObs :
               /\ ar.ob[o].on_partial_list
               /\ ar.ob[o].dev = ar.ca
               /\ ar' = [ar EXCEPT !.pc = "partial_put", !.cur = o,
                                   !.ob[o].on_partial_list = FALSE,
                                   !.ob[o].owner = "remove"]
       ELSE ar' = [ar EXCEPT !.pc = "wait"]
    /\ UNCHANGED notRemoveVars

\* ... and put
dev_allocator_remove_partial_put ==
    /\ ar.pc = "partial_put"
    /\ ar' = [ar EXCEPT !.pc = "partial", !.cur = 0,
                        !.ob[ar.cur] = open_bucket_drop(@)]
    /\ UNCHANGED notRemoveVars

\* closure_wait_event(&c->open_buckets_wait,
\*                    !bch2_dev_has_open_write_point(c, ca))
dev_allocator_remove_wait ==
    /\ ar.pc = "wait"
    /\ ar' = IF bch2_dev_has_open_write_point(ar.ob, ar.ca)
             THEN [ar EXCEPT !.waited = TRUE]
             ELSE [ar EXCEPT !.pc = "done"]
    /\ UNCHANGED notRemoveVars

\* bch2_dev_allocator_add(): the device joins the groups of the data types it
\* is allowed to hold
bch2_dev_allocator_add(d, data_allowed) ==
    /\ ar.pc \in {"idle", "done"}
    /\ ar' = [ar EXCEPT !.pc = "idle",
                        !.rw_devs = [g \in RmGroups |->
                                        IF g \in data_allowed
                                        THEN ar.rw_devs[g] \cup {d}
                                        ELSE ar.rw_devs[g]]]
    /\ UNCHANGED notRemoveVars

\* a write point opens a bucket on a device of an allocation group
rm_bucket_alloc(o, d) ==
    /\ ~ar.ob[o].valid
    /\ \E g \in RmGroups : d \in ar.rw_devs[g]
    /\ ar' = [ar EXCEPT !.ob[o] = [valid |-> TRUE, on_partial_list |-> FALSE,
                                   dev |-> d, pin |-> 1, owner |-> "wp"]]
    /\ UNCHANGED notRemoveVars

\* a write takes sectors of a write point's bucket, and a reference with them
rm_write_start(o) ==
    /\ ar.ob[o].owner = "wp"
    /\ ar.ob[o].pin < MaxPin
    /\ ar' = [ar EXCEPT !.ob[o].pin = @ + 1]
    /\ UNCHANGED notRemoveVars

\* a write in flight finishes and releases its bucket
rm_write_done(o) ==
    /\ ar.ob[o].pin > (IF ar.ob[o].owner = "none" THEN 0 ELSE 1)
    /\ ar' = [ar EXCEPT !.ob[o] = open_bucket_put(@)]
    /\ UNCHANGED notRemoveVars

RmOpenBuckets ==
    {ob_free}
        \cup {[valid |-> TRUE, on_partial_list |-> w = "partial", dev |-> d,
               pin |-> 1, owner |-> w] :
                 d \in RmDevs, w \in {"wp", "reserve", "partial"}}

RemoveInit ==
    \E obs \in [RmObs -> RmOpenBuckets] :
        ar = [ar_idle EXCEPT !.rw_devs = [g \in RmGroups |-> RmDevs],
                             !.ob = obs]

RemoveNext ==
    \/ \E d \in RmDevs : dev_allocator_remove_groups(d)
    \/ dev_allocator_remove_writepoints
    \/ dev_allocator_remove_reserve
    \/ dev_allocator_remove_partial
    \/ dev_allocator_remove_partial_put
    \/ dev_allocator_remove_wait
    \/ \E d \in RmDevs, a \in SUBSET RmGroups : bch2_dev_allocator_add(d, a)
    \/ \E o \in RmObs, d \in RmDevs : rm_bucket_alloc(o, d)
    \/ \E o \in RmObs : rm_write_start(o)
    \/ \E o \in RmObs : rm_write_done(o)

\* the removal goes on, and writes in flight finish
RemoveFairness ==
    /\ WF_vars(dev_allocator_remove_writepoints)
    /\ WF_vars(dev_allocator_remove_reserve)
    /\ WF_vars(dev_allocator_remove_partial)
    /\ WF_vars(dev_allocator_remove_partial_put)
    /\ WF_vars(dev_allocator_remove_wait)
    /\ \A o \in RmObs : WF_vars(rm_write_done(o))

\* C39: when bch2_dev_allocator_remove has returned the device is in no
\* allocation group and no valid open bucket that is not on the partial list
\* refers to it; and the call does return, once the writes in flight to the
\* device have released their buckets.
C39_RemoveReturns ==
    /\ [](ar.pc = "done" =>
             /\ \A g \in RmGroups : ar.ca \notin ar.rw_devs[g]
             /\ \A o \in RmObs :
                   ~(ar.ob[o].valid /\ ~ar.ob[o].on_partial_list
                         /\ ar.ob[o].dev = ar.ca))
    /\ (ar.pc = "writepoints") ~> (ar.pc = "done")

\* the call has returned after it waited for a write to the device
C39_Witness ==
    /\ ar.pc = "done"
    /\ ar.waited
    /\ \E o \in RmObs : ar.ob[o].valid /\ ar.ob[o].dev # ar.ca

\* ------------------------------------------------------------------------
\* cmd_fusemount.c: rename
\* ------------------------------------------------------------------------
RnNames == {"a", "b"}

\* the directories a request names, by FUSE inode number
RnDirs == 1..NRnDirs

RnInodes == {10, 11}

map_root_ino(ino) == IF ino = 1 THEN 4096 ELSE ino

\* directory trees: each name of each directory has no entry or one
RnTrees ==
    {UNION {IF t[e] = 0 THEN {} ELSE {<<map_root_ino(e[1]), e[2], t[e]>>} :
               e \in RnDirs \X RnNames} :
        t \in [RnDirs \X RnNames -> {0} \cup RnInodes]}

NoRename == [src_dir |-> 0, srcname |-> "", dst_dir |-> 0, dstname |-> ""]

NoRenameArgs == [src_dir |-> 0, src_name |-> "", dst_dir |-> 0, dst_name |-> ""]

rn_idle == [pc |-> "idle", before |-> {}, dirents |-> {}, req |-> NoRename,
            args |-> NoRenameArgs, ret |-> "0"]

\* bch2_rename_trans(..., BCH_RENAME): the entry src_name of src_dir becomes
\* the entry dst_name of dst_dir; the target is not looked at
bch2_rename_trans(dirents, a) ==
    LET src == {e \in dirents : e[1] = a.src_dir /\ e[2] = a.src_name}
        moved(e) == (dirents \ {e}) \cup {<<a.dst_dir, a.dst_name, e[3]>>}
    IN  IF src = {} THEN [dirents |-> dirents, ret |-> "-ENOENT"]
        ELSE [dirents |-> moved(CHOOSE e \in src : TRUE), ret |-> "0"]

\* the arguments bcachefs_fuse_rename() hands to bch2_rename_trans():
\* dst_name = QSTR(srcname), src_name = QSTR(dstname)
fuse_rename_args(req) ==
    [src_dir  |-> map_root_ino(req.src_dir),
     dst_dir  |-> map_root_ino(req.dst_dir),
     src_name |-> req.dstname,
     dst_name |-> req.srcname]

\* the request as FUSE sends it: the source exists, and without a flag for
\* overwriting the target does not
bcachefs_fuse_rename(req) ==
    /\ rn.pc = "idle"
    /\ \E e \in rn.dirents :
           e[1] = map_root_ino(req.src_dir) /\ e[2] = req.srcname
    /\ ~\E e \in rn.dirents :
           e[1] = map_root_ino(req.dst_dir) /\ e[2] = req.dstname
    /\ LET reply(r) == [pc      |-> "done",
                        before  |-> rn.dirents,
                        dirents |-> r.dirents,
                        req     |-> req,
                        args    |-> fuse_rename_args(req),
                        ret     |-> r.ret]
       IN  rn' = reply(bch2_rename_trans(rn.dirents, fuse_rename_args(req)))
    /\ UNCHANGED notRenameVars

RenameReqs ==
    [src_dir : RnDirs, srcname : RnNames, dst_dir : RnDirs, dstname : RnNames]

RenameInit ==
    \E t \in RnTrees :
        rn = [rn_idle EXCEPT !.before = t, !.dirents = t]

RenameNext == \E req \in RenameReqs : bcachefs_fuse_rename(req)

\* C40: a FUSE rename moves the entry srcname of the source directory to the
\* name dstname in the destination directory: the rename transaction gets
\* srcname as its source name and dstname as its destination name, and when
\* it succeeds the entry that was srcname is what dstname now names.
C40_RenameMoves ==
    rn.pc = "done" =>
        /\ rn.args.src_name = rn.req.srcname
        /\ rn.args.dst_name = rn.req.dstname
        /\ rn.ret = "0" =>
              \E i \in RnInodes :
                  /\ <<map_root_ino(rn.req.src_dir), rn.req.srcname, i>>
                         \in rn.before \ rn.dirents
                  /\ <<map_root_ino(rn.req.dst_dir), rn.req.dstname, i>>
                         \in rn.dirents

\* ------------------------------------------------------------------------
\* The c->writes references of the discard and the invalidate worker
\* ------------------------------------------------------------------------
Works == {"discard_work", "invalidate_work"}

wq_idle == [writes  |-> 0,
            dying   |-> FALSE,
            pending |-> [w \in Works |-> FALSE],
            running |-> [w \in Works |-> FALSE]]

WorkIdle == wq = wq_idle

RemoveIdle == ar = ar_idle

RenameIdle == rn = rn_idle

\* ------------------------------------------------------------------------
\* btree_iter.c: lock order while bch2_btree_path_traverse_all() walks the
\* sorted list
\* ------------------------------------------------------------------------
OrdIdx == 1..NSortedPaths

OrdNoPath == [btree |-> 0, cached |-> FALSE, pos |-> 0, locks_want |-> 0,
              locked |-> Unlocked, level |-> 0]

ord_idle == [pc |-> "idle", paths |-> [p \in OrdIdx |-> OrdNoPath],
             sorted |-> << >>, traverse_all_idx |-> U8_MAX,
             in_traverse_all |-> FALSE, fill |-> 0, reason |-> 0]

\* trans_for_each_path(): the first path, by index, whose locks forbid
\* blocking for the node at pos and level, and the reason it gives
ord_first_reason(ps, p, pos, level, type) ==
    LET bad == {q \in OrdIdx : path_used(ps[q]) /\
                    deadlock_reason(ps[p], pos, level, type, ps[q]) # 0}
    IN  IF bad = {} THEN 0
        ELSE LET q == CHOOSE q \in bad : \A r \in bad : q <= r
             IN  deadlock_reason(ps[p], pos, level, type, ps[q])

\* btree_node_lock() of the node of path p at level: six_trylock_type(), else
\* btree_node_lock_increment(), else __bch2_btree_node_lock(), which blocks,
\* restarts the transaction, or meets BUG_ON(trans->in_traverse_all)
ord_node_lock(o, p, level, out) ==
    LET path == o.paths[p]
        n == path_node(path, level)
        type == __btree_lock_want(path, level)
        reason == ord_first_reason(o.paths, p, n.pos, level, type)
        held == \E q \in OrdIdx :
                    /\ path_used(o.paths[q])
                    /\ o.paths[q].locked[level] # "none"
                    /\ path_node(o.paths[q], level) = n
                    /\ LockRank[o.paths[q].locked[level]] >= LockRank[type]
    IN  IF out = "free" \/ held \/ reason = 0
        THEN [o EXCEPT !.paths[p] = path_locked(path, level, type)]
        ELSE IF reason = 7 /\ o.in_traverse_all
        THEN [o EXCEPT !.pc = "BUG", !.reason = reason]
        ELSE [o EXCEPT !.pc = "retry_all", !.reason = reason, !.fill = 0]

\* the upgrades of bch2_btree_path_traverse_all(), from the end of the sorted
\* list to its head; the paths hold no node that could be relocked
RECURSIVE ord_upgrade(_, _, _)
ord_upgrade(ps, sorted, i) ==
    IF i < 1 THEN ps
    ELSE LET path1 == sorted[i]
             path2 == sorted[i + 1]
         IN  ord_upgrade(
                 IF /\ ps[path1].btree = ps[path2].btree
                    /\ ps[path1].locks_want < ps[path2].locks_want
                 THEN [ps EXCEPT ![path1].locks_want = ps[path2].locks_want]
                 ELSE IF ps[path1].locks_want = 0 /\ ps[path2].locks_want # 0
                 THEN [ps EXCEPT ![path1].locks_want = 1]
                 ELSE ps,
                 sorted, i - 1)

\* bch2_btree_path_traverse_all() from its entry or from retry_all to the
\* loop over the sorted list
ord_traverse_all_retry ==
    /\ ord.pc \in {"restarted", "retry_all"}
    /\ LET ps == ord_upgrade(ord.paths, ord.sorted, Len(ord.sorted) - 1)
       IN  ord' = [ord EXCEPT
                      !.pc = "traverse_all",
                      !.in_traverse_all = TRUE,
                      !.traverse_all_idx = 0,
                      !.fill = 0,
                      !.reason = 0,
                      !.paths = [p \in OrdIdx |->
                                    [ps[p] EXCEPT !.locked = Unlocked]]]
    /\ UNCHANGED notOrderVars

\* the path bch2_path_get() would take up for a key cache fill at the
\* position of the cached path p: the last path of the sorted list that is not
\* after that position, when it is a path of the same btree on its leaves
ord_fill_path_pos(o, p) ==
    LET before == {i \in 1..Len(o.sorted) :
                      __btree_path_cmp(o.paths[o.sorted[i]], o.paths[p].btree,
                                       FALSE, o.paths[p].pos, 0) <= 0}
    IN  IF before = {} THEN 0
        ELSE CHOOSE i \in before : \A j \in before : i >= j

ord_fill_reuses(o, p) ==
    LET i == ord_fill_path_pos(o, p)
    IN  /\ i # 0
        /\ o.paths[o.sorted[i]].btree = o.paths[p].btree
        /\ ~o.paths[o.sorted[i]].cached

\* btree_path_alloc() and btree_path_list_add() of the path a key cache fill
\* reads the key with: it goes after path_pos in the sorted list, and the
\* position of the walk moves with the path it is at
ord_fill_path_get(o, p) ==
    LET at == ord_fill_path_pos(o, p)
        new == CHOOSE q \in OrdIdx :
                   /\ ~path_used(o.paths[q])
                   /\ \A r \in OrdIdx : ~path_used(o.paths[r]) => q <= r
    IN  [o EXCEPT
            !.paths[new] = [OrdNoPath EXCEPT !.btree = o.paths[p].btree,
                                             !.pos = o.paths[p].pos],
            !.sorted = array_insert_item(@, at, new),
            !.traverse_all_idx =
                IF o.in_traverse_all /\ @ # U8_MAX /\ @ >= at
                THEN @ + 1 ELSE @,
            !.fill = new,
            !.pc = "fill"]

\* one turn of the loop of bch2_btree_path_traverse_all(): the next node of
\* the path at traverse_all_idx is locked, or the walk moves on when the path
\* is up to date; valid: the key cache entry of a cached path holds its key
ord_traverse_one(out, valid) ==
    /\ ord.pc = "traverse_all"
    /\ ord.traverse_all_idx < Len(ord.sorted)
    /\ LET p == ord.sorted[ord.traverse_all_idx + 1]
           path == ord.paths[p]
           locked(o) ==
               IF o.pc = "traverse_all" /\ path.cached /\ ~valid
               THEN ord_fill_path_get(o, p)
               ELSE o
       IN  IF path_uptodate(path)
           THEN /\ out = "free" /\ valid
                /\ ord' = [ord EXCEPT !.traverse_all_idx = @ + 1]
           ELSE /\ path.cached /\ ~valid =>
                    /\ \E q \in OrdIdx : ~path_used(ord.paths[q])
                    /\ ~ord_fill_reuses(ord, p)
                /\ ~path.cached => valid
                /\ ord' = locked(ord_node_lock(ord, p, path_next_level(path),
                                               out))
    /\ UNCHANGED notOrderVars

\* bch2_btree_path_traverse() of the path of a key cache fill, one node at a
\* time, while the walk waits at the cached path
ord_fill_traverse(out) ==
    /\ ord.pc = "fill"
    /\ LET f == ord.fill
           done(o) ==
               IF o.pc = "fill" /\ path_uptodate(o.paths[f])
               THEN [o EXCEPT !.pc = "traverse_all", !.fill = 0]
               ELSE o
       IN  ord' = done(ord_node_lock(ord, f,
                                     path_next_level(ord.paths[f]), out))
    /\ UNCHANGED notOrderVars

\* the end of bch2_btree_path_traverse_all()
ord_traverse_all_done ==
    /\ ord.pc = "traverse_all"
    /\ ord.traverse_all_idx >= Len(ord.sorted)
    /\ ord' = [ord EXCEPT !.pc = "done", !.in_traverse_all = FALSE]
    /\ UNCHANGED notOrderVars

\* C32: while bch2_btree_path_traverse_all() walks the paths again in the
\* order of the sorted list, no lock request is turned down for asking for a
\* node that is not after a node another path of the transaction has locked
\* at that level (reason 7, where the code has BUG_ON(trans->in_traverse_all)),
\* also when a path was added to the sorted list during the walk.
C32_NoKeyOrderReject ==
    ord.in_traverse_all => (ord.reason # 7 /\ ord.pc # "BUG")

\* the paths a restarted transaction may hold: none of them locked, the
\* sorted list in the order of btree_path_cmp()
OrdPaths ==
    {[OrdNoPath EXCEPT !.btree = b, !.cached = c, !.pos = q, !.locks_want = w] :
        b \in Btrees, c \in BOOLEAN, q \in 1..MaxPos, w \in 0..2}

OrderInit ==
    \E p1, p2 \in {x \in OrdPaths :
                      /\ x.cached => btree_id_cached(x.btree)
                      /\ x.pos \in KeyPositions(x.btree)},
       first \in 1..2 :
        /\ btree_path_cmp(p1, p2) <= 0
        /\ ord = [ord_idle EXCEPT
                     !.pc = "restarted",
                     !.paths = [p \in OrdIdx |->
                                   IF p = first THEN p1
                                   ELSE IF p = 3 - first THEN p2
                                   ELSE OrdNoPath],
                     !.sorted = <<first, 3 - first>>]

OrderNext ==
    \/ ord_traverse_all_retry
    \/ \E out \in {"free", "contended"}, valid \in BOOLEAN :
          ord_traverse_one(out, valid)
    \/ \E out \in {"free", "contended"} : ord_fill_traverse(out)
    \/ ord_traverse_all_done

OrderIdle == ord = ord_idle

OtherIdle == WorkIdle /\ RemoveIdle /\ RenameIdle /\ OrderIdle

\* percpu_ref_tryget(): fails once the reference count has been killed
percpu_ref_tryget(q) ==
    [q |-> IF q.dying THEN q ELSE [q EXCEPT !.writes = @ + 1], ret |-> ~q.dying]

percpu_ref_put(q) == [q EXCEPT !.writes = @ - 1]

\* queue_work(): false, and nothing queued, if the work item is pending
queue_work(q, w) == [q |-> [q EXCEPT !.pending[w] = TRUE], ret |-> ~q.pending[w]]

\* bch2_do_discards(): the reference is put back when the work was pending
do_discards_queue ==
    /\ wq.writes < MaxWrites
    /\ LET queued(r) == IF ~r.ret THEN percpu_ref_put(r.q) ELSE r.q
           got(t) == IF t.ret THEN queued(queue_work(t.q, "discard_work"))
                     ELSE t.q
       IN  wq' = got(percpu_ref_tryget(wq))
    /\ UNCHANGED notWorkVars

\* bch2_do_invalidates(): the result of queue_work() is not looked at
do_invalidates_queue ==
    /\ wq.writes < MaxWrites
    /\ LET got(t) == IF t.ret THEN queue_work(t.q, "invalidate_work").q
                     ELSE t.q
       IN  wq' = got(percpu_ref_tryget(wq))
    /\ UNCHANGED notWorkVars

\* the workqueue starts a pending work item, one run of it at a time
process_one_work(w) ==
    /\ wq.pending[w]
    /\ ~wq.running[w]
    /\ wq' = [wq EXCEPT !.pending[w] = FALSE, !.running[w] = TRUE]
    /\ UNCHANGED notWorkVars

\* the end of bch2_do_discards_work(): percpu_ref_put(&c->writes)
do_discards_work_put ==
    /\ wq.running["discard_work"]
    /\ wq' = [percpu_ref_put(wq) EXCEPT !.running["discard_work"] = FALSE]
    /\ UNCHANGED notWorkVars

\* the end of bch2_do_invalidates_work(): percpu_ref_put(&c->writes)
do_invalidates_work_put ==
    /\ wq.running["invalidate_work"]
    /\ wq' = [percpu_ref_put(wq) EXCEPT !.running["invalidate_work"] = FALSE]
    /\ UNCHANGED notWorkVars

\* the filesystem goes read-only: percpu_ref_kill(&c->writes)
percpu_ref_kill ==
    /\ ~wq.dying
    /\ wq' = [wq EXCEPT !.dying = TRUE]
    /\ UNCHANGED notWorkVars

WorkInit == wq = wq_idle

WorkNext ==
    \/ do_discards_queue
    \/ do_invalidates_queue
    \/ \E w \in Works : process_one_work(w)
    \/ do_discards_work_put
    \/ do_invalidates_work_put
    \/ percpu_ref_kill

\* the references a work item that is queued or running will put
work_refs_owed ==
    Cardinality({w \in Works : wq.pending[w]})
        + Cardinality({w \in Works : wq.running[w]})

\* C34: every c->writes reference taken to schedule the discard or the
\* invalidate worker is released exactly once, by the worker at its end or
\* at once when the work item could not be queued: the references held are
\* exactly those that a queued or running work item is still going to put.
C34_WritesReleased == wq.writes = work_refs_owed

\* the allocator and its workers on one member device
AllocSpecInit == AllocInit /\ RestartIdle /\ LockInit /\ OtherIdle /\ MountIdle /\ FormatIdle /\ CliIdle /\ BioIdle /\ PeekIdle /\ PathIdle

AllocSpec == AllocSpecInit /\ [][AllocNext]_vars

\* the discard worker is a work item: once queued it runs each of its steps,
\* and it is queued again whenever buckets may need discarding
DiscardFairness ==
    /\ WF_vars(bch2_do_discards)
    /\ WF_vars(bch2_do_discards_work)
    /\ WF_vars(bch2_clear_need_discard)
    /\ WF_vars(\E r \in BOOLEAN : clear_need_discard_relock(r))

AllocLiveSpec == AllocSpecInit /\ [][AllocNext]_vars /\ DiscardFairness

\* a device data drop and a FUSE setattr, every btree operation of which may
\* restart or fail
RestartSpecInit == AllocIdle /\ RestartInit /\ LockInit /\ OtherIdle /\ MountIdle /\ FormatIdle /\ CliIdle /\ BioIdle /\ PeekIdle /\ PathIdle

RestartSpec == RestartSpecInit /\ [][RestartNext]_vars

\* transactions locking btree nodes through their paths
LockSpecInit == AllocIdle /\ RestartIdle /\ LockInit /\ OtherIdle /\ MountIdle /\ FormatIdle /\ CliIdle /\ BioIdle /\ PeekIdle /\ PathIdle

LockSpec == LockSpecInit /\ [][LockNext]_vars

\* the alloc keys a device may hold when it is mounted
MountAllocKeys ==
    {alloc_key_init,
     [alloc_key_init EXCEPT !.gen = GenBase + 1],
     [alloc_key_init EXCEPT !.need_discard = TRUE],
     [alloc_key_init EXCEPT !.data_type = "user", !.dirty_sectors = 1,
                            !.need_discard = TRUE, !.need_inc_gen = TRUE],
     [alloc_key_init EXCEPT !.data_type = "cached", !.cached_sectors = 1,
                            !.io_read = 1,
                            !.need_discard = TRUE, !.need_inc_gen = TRUE]}

\* a mount: the indices are complete on an initialised device, and hold what
\* an interrupted initialisation left on one that is not
MountInit ==
    /\ alloc \in [Buckets -> MountAllocKeys]
    /\ dev \in {[discard |-> FALSE, freespace_initialized |-> i] :
                    i \in BOOLEAN}
    /\ LET fs == {alloc_freespace_pos(b, alloc[b]) :
                    b \in {c \in Buckets : St(c) = "free"}}
           nd == {b \in Buckets : St(b) = "need_discard"}
       IN  IF dev.freespace_initialized
           THEN freespace = fs /\ need_discard = nd
           ELSE freespace \in SUBSET fs /\ need_discard \in SUBSET nd
    /\ Cardinality({b \in Buckets : St(b) = "cached"}) <= 1
    /\ lru = {[time |-> alloc[b].io_read, idx |-> b] :
                    b \in {c \in Buckets : St(c) = "cached"}}
    /\ open = {}
    /\ waiting = [b \in Buckets |-> 0]
    /\ io_clock = 0
    /\ journal = [seq |-> 1, flushed |-> 0]
    /\ dw = dw_idle
    /\ iw = [pc |-> "idle"]
    /\ fi = fi_idle

MountNext ==
    \/ bch2_fs_freespace_init
    \/ \E err \in ScanRets : bch2_dev_freespace_init(err)

MountSpecInit == MountInit /\ RestartIdle /\ LockInit /\ OtherIdle /\ FormatIdle /\ CliIdle /\ BioIdle /\ PeekIdle /\ PathIdle

MountSpec == MountSpecInit /\ [][MountNext]_vars

\* the sectors a layout may name
LayoutSectors == {BCH_SB_SECTOR, BCH_SB_SECTOR + 8, BCH_SB_SECTOR + 128,
                  BCH_SB_SECTOR + 256}

\* layouts of up to MaxSuperblocks distinct offsets
Layouts ==
    UNION {{l \in [1..n -> LayoutSectors] :
                \A i, j \in 1..n : i # j => l[i] # l[j]} :
           n \in 1..MaxSuperblocks}

\* a superblock that was read, and changed, is written back
SuperWriteInit ==
    /\ sb \in {[offset |-> o, csum |-> NoCsum, dev_idx |-> 0, seq |-> q,
                layout |-> l] :
                    o \in {0, BCH_SB_SECTOR}, q \in {1, 2}, l \in Layouts}
    /\ disk = disk_empty
    /\ fmt = [pc |-> "write", i |-> 1]

SuperWriteNext ==
    \/ bch2_super_write
    \/ super_write_fsync

SuperWriteSpecInit ==
    AllocIdle /\ RestartIdle /\ LockInit /\ OtherIdle /\ MountIdle /\ SuperWriteInit /\ CliIdle /\ BioIdle /\ PeekIdle /\ PathIdle

SuperWriteSpec == SuperWriteSpecInit /\ [][SuperWriteNext]_vars

\* the devices given to format: default superblock range, or a range chosen
\* by the caller
FormatDevOpts ==
    {[sb_offset |-> o[1], sb_end |-> o[2], size |-> z] :
        o \in {<<0, 0>>, <<BCH_SB_SECTOR, BCH_SB_SECTOR + 512>>, <<20, 532>>},
        z \in {2048, 4096}}

FormatInit ==
    /\ sb = [sb_init EXCEPT !.seq = 1]
    /\ disk = disk_empty
    /\ fmt \in {[pc |-> "format", i |-> 1, cur |-> 0, block_size |-> bs,
                 devs |-> ds] :
                    bs \in {1, 8},
                    ds \in UNION {[1..n -> FormatDevOpts] : n \in 1..NDevs}}

FormatNext ==
    \/ bch2_format
    \/ bch2_super_write
    \/ super_write_fsync

FormatSpecInit ==
    AllocIdle /\ RestartIdle /\ LockInit /\ OtherIdle /\ MountIdle /\ FormatInit /\ CliIdle /\ BioIdle /\ PeekIdle /\ PathIdle

FormatSpec == FormatSpecInit /\ [][FormatNext]_vars

\* the invalidate worker on a device whose buckets all carry data
InvalidateSpecInit == AllocIdle /\ RestartIdle /\ LockInit /\ OtherIdle /\ MountIdle /\ FormatIdle /\ CliIdle /\ BioIdle /\ PeekIdle /\ PathIdle

InvalidateSpec == InvalidateSpecInit /\ [][InvalidateNext]_vars

\* fsck runs: up to MaxArgs option letters and up to NDevs devices
FsckInit ==
    /\ \E n \in 0..MaxArgs, m \in 0..NDevs :
         \E args \in [1..n -> FsckOpts], devs \in [1..m -> MountStates] :
            fsck = [fsck_idle EXCEPT !.pc = "getopt", !.args = args, !.devs = devs]
    /\ dj = dj_idle
    /\ pr = pr_idle

FsckNext ==
    \/ \E r \in ParseRets : cmd_fsck_getopt(r)
    \/ cmd_fsck_args_shift
    \/ cmd_fsck_dev_mounted
    \/ \E e \in BOOLEAN, f \in SUBSET FsFlags : cmd_fsck_open(e, f)

FsckSpecInit ==
    AllocIdle /\ RestartIdle /\ LockInit /\ OtherIdle /\ MountIdle /\ FormatIdle /\ FsckInit /\ BioIdle /\ PeekIdle /\ PathIdle

FsckSpec == FsckSpecInit /\ [][FsckNext]_vars

\* data job command lines: up to MaxArgs options, then nothing, a job, a job
\* and a filesystem, or one argument more
DataJobInit ==
    /\ fsck = fsck_idle
    /\ \E n \in 0..MaxArgs, m \in 0..3 :
         \E o \in [1..n -> DjOpts],
            p \in [1..m -> {data_jobs[j] : j \in 1..Len(data_jobs)} \cup {"fs"}] :
            /\ m >= 2 => p[2] = "fs"
            /\ m >= 3 => p[3] = "fs"
            /\ dj = [dj_idle EXCEPT !.pc = "getopt", !.opts = o, !.pos = p]
    /\ pr = pr_idle

DataJobNext ==
    \/ cmd_data_job_getopt
    \/ \E ok \in BOOLEAN : cmd_data_job(ok)

DataJobSpecInit ==
    AllocIdle /\ RestartIdle /\ LockInit /\ OtherIdle /\ MountIdle /\ FormatIdle /\ DataJobInit /\ BioIdle /\ PeekIdle /\ PathIdle

DataJobSpec == DataJobSpecInit /\ [][DataJobNext]_vars

\* the trees an option is set in: an inode that has not set the option has
\* the value of its directory
SetattrInodes ==
    {t \in [Inodes -> [val : OptVals, set : BOOLEAN]] :
        \A x \in Inodes :
            (x # 1 /\ ~t[x].set) => t[x].val = t[inode_parent(x)].val}

SetattrInit ==
    /\ fsck = fsck_idle
    /\ dj = dj_idle
    /\ \E n \in 0..MaxArgs :
         \E files \in [1..n -> Inodes], v \in OptVals, t \in SetattrInodes :
            pr = [pr_idle EXCEPT !.pc = "start", !.paths = files, !.val = v,
                                 !.inodes = t, !.before = t]

SetattrNext ==
    \/ cmd_setattr
    \/ \E e1, e2 \in BOOLEAN : do_setattr(e1, e2)
    \/ \E x \in Inodes, e1, e2 \in BOOLEAN : propagate_recurse(x, e1, e2)
    \/ \E e \in BOOLEAN : propagate_return(e)

SetattrSpecInit ==
    AllocIdle /\ RestartIdle /\ LockInit /\ OtherIdle /\ MountIdle /\ FormatIdle /\ SetattrInit /\ BioIdle /\ PeekIdle /\ PathIdle

SetattrSpec == SetattrSpecInit /\ [][SetattrNext]_vars

\* reads and writes through the backend blkdev_init() settled on
BioInit ==
    /\ bios \in [Bios -> {[bio_new EXCEPT !.op = o, !.preflush = p, !.fua = f,
                                          !.wait = w] :
                             o \in {"REQ_OP_READ", "REQ_OP_WRITE"},
                             p \in BOOLEAN, f \in BOOLEAN, w \in BOOLEAN}]
    /\ \E f \in {"aio", "sync"} : aio = [aio_idle EXCEPT !.fops = f]

BioNext ==
    \/ \E b \in Bios, e \in BOOLEAN, ok \in BOOLEAN, res \in IoRes :
          generic_make_request(b, e, ok, res)
    \/ \E b \in Bios, res \in IoRes : io_complete(b, res)
    \/ \E b \in Bios, res \in IoRes :
          aio_completion_thread([bio |-> b, res |-> res])
    \/ \E b \in Bios : wait_for_completion(b)

AioNext ==
    \/ BioNext
    \/ \E ok \in BOOLEAN : aio_cleanup(ok)
    \/ io_complete_stop
    \/ aio_completion_thread_stop

BioSpecInit ==
    AllocIdle /\ RestartIdle /\ LockInit /\ OtherIdle /\ MountIdle /\ FormatIdle /\ CliIdle /\ PeekIdle /\ PathIdle
        /\ BioInit

\* the kernel finishes what it was given, the completion thread runs, and a
\* woken sleeper returns
BioFairness ==
    /\ \A b \in Bios : WF_vars(\E res \in IoRes : io_complete(b, res))
    /\ \A b \in Bios :
          WF_vars(\E res \in IoRes : aio_completion_thread([bio |-> b, res |-> res]))
    /\ \A b \in Bios : WF_vars(wait_for_completion(b))

BioLiveSpec == BioSpecInit /\ [][BioNext]_vars /\ BioFairness

AioSpec == BioSpecInit /\ [][AioNext]_vars

\* the btrees an iterator looks at: the journal holds keys, at most two,
\* only until it has been replayed; the transaction has at most one pending
\* update, at position 1
PeekKeyLists == [PeekPositions -> {"none", "live", "deleted"}]

PeekInit ==
    /\ \E sp \in {1, SPOS_MAX},
          d \in [PeekPositions -> {"none", "live", "deleted", "both"}],
          j \in PeekKeyLists, u \in PeekKeyLists, r \in BOOLEAN :
          /\ r => j = [q \in PeekPositions |-> "none"]
          /\ Cardinality({q \in PeekPositions : j[q] # "none"}) <= 2
          /\ \A q \in PeekPositions : u[q] # "none" => q = 1
          /\ bt = [split |-> sp, disk |-> d, journal |-> j, updates |-> u,
                   size |-> [q \in PeekPositions |-> 0],
                   replay_done |-> r]
    /\ it = it_idle

PeekRets == {"0", "-EINTR"}

\* BTREE_ITER_WITH_UPDATES is asked for by a transaction that has updates
PeekFlags ==
    IF \E q \in PeekPositions : bt.updates[q] # "none"
    THEN SUBSET {"BTREE_ITER_WITH_UPDATES"} ELSE {{}}

PeekNext ==
    \/ \E pos \in 0..SPOS_MAX, f \in PeekFlags : bch2_trans_iter_init(pos, f)
    \/ bch2_btree_iter_peek
    \/ \E r \in PeekRets : btree_iter_peek_pass(r)
    \/ \E r \in PeekRets : bch2_btree_iter_peek_slot(r)
    \/ bch2_btree_iter_peek_prev
    \/ \E r \in PeekRets : btree_iter_peek_prev_pass(r)

PeekSpecInit ==
    AllocIdle /\ RestartIdle /\ LockInit /\ OtherIdle /\ MountIdle /\ FormatIdle /\ CliIdle /\ PathIdle
        /\ BioIdle /\ PeekInit

PeekSpec == PeekSpecInit /\ [][PeekNext]_vars

PathSpecInit ==
    AllocIdle /\ RestartIdle /\ LockInit /\ OtherIdle /\ MountIdle /\ FormatIdle /\ CliIdle
        /\ BioIdle /\ PeekIdle /\ PathInit

PathSpec == PathSpecInit /\ [][PathNext]_vars

KmallocSpecInit ==
    AllocIdle /\ RestartIdle /\ LockInit /\ OtherIdle /\ MountIdle /\ FormatIdle /\ CliIdle
        /\ BioIdle /\ PeekIdle /\ KmallocInit

KmallocSpec == KmallocSpecInit /\ [][KmallocNext]_vars

TraverseSpecInit ==
    AllocIdle /\ RestartIdle /\ LockInit /\ OtherIdle /\ MountIdle /\ FormatIdle /\ CliIdle
        /\ BioIdle /\ PeekIdle /\ TraverseInit

TraverseSpec == TraverseSpecInit /\ [][TraverseNext]_vars

WorkSpecInit ==
    AllocIdle /\ RestartIdle /\ LockInit /\ MountIdle /\ FormatIdle /\ CliIdle
        /\ BioIdle /\ PeekIdle /\ PathIdle /\ WorkInit /\ RemoveIdle /\ RenameIdle /\ OrderIdle

WorkSpec == WorkSpecInit /\ [][WorkNext]_vars

RenameSpecInit ==
    AllocIdle /\ RestartIdle /\ LockInit /\ MountIdle /\ FormatIdle /\ CliIdle
        /\ BioIdle /\ PeekIdle /\ PathIdle /\ WorkIdle /\ RemoveIdle /\ RenameInit /\ OrderIdle

RenameSpec == RenameSpecInit /\ [][RenameNext]_vars

RemoveSpecInit ==
    AllocIdle /\ RestartIdle /\ LockInit /\ MountIdle /\ FormatIdle /\ CliIdle
        /\ BioIdle /\ PeekIdle /\ PathIdle /\ WorkIdle /\ RemoveInit /\ RenameIdle /\ OrderIdle

RemoveLiveSpec == RemoveSpecInit /\ [][RemoveNext]_vars /\ RemoveFairness

UptoInit ==
    /\ \E sp \in {1, SPOS_MAX},
          d \in [PeekPositions -> {"none", "live", "deleted", "both"}],
          sz \in [PeekPositions -> 0..MaxPos] :
          /\ (\E q \in PeekPositions : sz[q] > 0) =>
                \A q \in PeekPositions :
                    /\ d[q] \in {"none", "live"}
                    /\ d[q] = "live" <=> sz[q] > 0
                    /\ sz[q] <= q
                    /\ \A r \in PeekPositions :
                          r < q /\ sz[r] > 0 => r <= q - sz[q]
          /\ bt = [bt_idle EXCEPT !.split = sp, !.disk = d, !.size = sz]
    /\ it = it_idle

UptoNext ==
    \/ \E pos \in 0..SPOS_MAX : trans_iter_init_upto(pos)
    \/ \E end \in 0..SPOS_MAX : bch2_btree_iter_peek_upto(end)
    \/ \E r \in PeekRets : btree_iter_peek_upto_pass(r)
    \/ bch2_btree_iter_advance

UptoSpecInit ==
    AllocIdle /\ RestartIdle /\ LockInit /\ OtherIdle /\ MountIdle /\ FormatIdle /\ CliIdle
        /\ PathIdle /\ BioIdle /\ UptoInit

UptoSpec == UptoSpecInit /\ [][UptoNext]_vars

\* ------------------------------------------------------------------------
\* bch2_trans_begin() of a transaction with paths, updates and memory
\* ------------------------------------------------------------------------
\* bch2_trans_begin() has returned
trans_begun == tx.op = "begin" /\ km.op = "begin" /\ tx.pc = "running"

begin_clean ==
    trans_begun =>
        /\ tx.updates = <<>>
        /\ km.mem_top = 0
        /\ \A q \in tx.allocated : ~tp[q].should_be_locked
        /\ ~tx.restarted

\* bch2_btree_path_traverse_all() has returned, with a result that is not in
\* errors, and bch2_trans_begin() returns: no path is left to be traversed
begin_retraversed(errors) ==
    tx.pc = "traversed" /\ tx'.pc = "running" /\ tx.ret \notin errors =>
        \A q \in tx'.allocated : tp'[q].uptodate < BTREE_ITER.NEED_TRAVERSE

\* a path is walked when the paths before it in lock order are up to date
begin_in_order ==
    \A p \in tx.allocated :
        /\ tx.pc = "traverse_all"
        /\ tx'.path = p
        /\ tp[p].uptodate # BTREE_ITER.UPTODATE
        /\ tp' # tp
        => \A q \in tx.allocated :
               btree_path_cmp(tp[q], tp[p]) < 0 =>
                   tp[q].uptodate = BTREE_ITER.UPTODATE

\* C36 as stated: after bch2_trans_begin the transaction has no staged
\* updates, mem_top = 0, no path marked should_be_locked and restarted
\* cleared; if it had been restarted every path it kept has been traversed
\* again, in lock order, before the body runs again.
C36_BeginRetraversesAll ==
    /\ []begin_clean
    /\ [][begin_retraversed({}) /\ begin_in_order]_vars

\* C36: after bch2_trans_begin the transaction has no staged updates,
\* mem_top = 0, no path marked should_be_locked and restarted cleared; if it
\* had been restarted every path it kept has been traversed again, in lock
\* order, before the body runs again, unless walking a path failed with an
\* error that is no restart (-EIO): then the pass stops there and
\* bch2_trans_begin returns all the same.
C36_BeginRetraverses ==
    /\ []begin_clean
    /\ [][begin_retraversed({"-EIO"}) /\ begin_in_order]_vars

\* a restarted transaction with memory handed out and two paths has begun
\* again, both paths walked
C36_Witness ==
    /\ trans_begun
    /\ Len(km.mem) > 0
    /\ Cardinality(tx.allocated) = 2
    /\ tx.traverse_all_idx = 2
    /\ \A q \in tx.allocated : tp[q].uptodate = BTREE_ITER.UPTODATE
    /\ \E q, r \in tx.allocated : btree_path_cmp(tp[q], tp[r]) < 0

BeginNext ==
    \/ \E g \in TraverseGets :
          bch2_path_get(g.iter, g.btree, g.pos, g.level, FALSE, g.iter = 1,
                        FALSE)
    \/ \E iter \in Iters, outs \in OutsSet :
          bch2_btree_iter_traverse(iter, tp[tx.iters[iter].path].pos, outs,
                                   "no")
    \/ \E iter \in Iters : bch2_trans_update(iter)
    \/ bch2_trans_kmalloc(MemMax, TRUE)
    \/ \E sched \in Scheds : path_trans_begin(sched)
    \/ traverse_all_retry
    \/ \E outs \in OutsSet : traverse_all_step(outs)
    \/ path_trans_begin_done

BeginSpecInit ==
    AllocIdle /\ RestartIdle /\ LockInit /\ OtherIdle /\ MountIdle /\ FormatIdle /\ CliIdle
        /\ BioIdle /\ PeekIdle /\ TraverseInit

BeginSpec == BeginSpecInit /\ [][BeginNext]_vars

OrderSpecInit == AllocIdle /\ RestartIdle /\ LockInit /\ WorkIdle /\ RemoveIdle /\ RenameIdle /\ MountIdle /\ FormatIdle /\ CliIdle /\ BioIdle /\ PeekIdle /\ PathIdle /\ OrderInit

OrderSpec == OrderSpecInit /\ [][OrderNext]_vars

====
